---- MODULE Spec2Model ----
(***************************************************************************)
(* A model of forkfolio's semantic matching core:                          *)
(*   - TTLCache (app/core/cache.py),                                       *)
(*   - RecipeDedupeServiceImpl.find_duplicate (recipe_dedupe_impl.py),      *)
(*   - RecipeProcessingService.process_raw_recipe,                          *)
(*   - apply_rerank / _rank_matches and the semantic search endpoint.       *)
(* Distances, scores, weights and thresholds are fixed-point numbers in     *)
(* hundredths (0.05 is 5); a combined score is in ten-thousandths.          *)
(***************************************************************************)
EXTENDS Integers, Sequences, FiniteSets, Bags, TLC

VARIABLES
    \* ---- TTLCache ----
    ttl_seconds,   \* TTLCache._ttl_seconds
    max_items,     \* TTLCache._max_items
    data,          \* TTLCache._data, an OrderedDict: head = oldest, tail = newest
    now,           \* time.monotonic()
    cacheOp,       \* the last completed cache call: what it was and what it returned
    stored,        \* history: per key, the last set that stored it and was not undone
    touch,         \* history: the keys of the map in the order of their last touch
    \* ---- RecipeDedupeServiceImpl ----
    strict_duplicate_threshold,  \* self.strict_duplicate_threshold
    distance_threshold,          \* self.distance_threshold
    ddEnv,         \* what the collaborators answered during the last find_duplicate
    ddRes,         \* how the last find_duplicate ended
    \* ---- RecipeProcessingService ----
    store,         \* the recipe store: the recipes inserted (deleted ones marked), oldest first
    on_delete,     \* what the database schema does with the embeddings of a deleted recipe
    pipeIn,        \* the last process_raw_recipe call: its arguments and collaborators
    pipeDup,       \* what find_duplicate answered inside that call
    pipeRes,       \* what that call returned
    \* ---- apply_rerank ----
    rrIn,          \* the arguments of the apply_rerank call
    rrOut,         \* whether it was made, and the list it returned
    \* ---- semantic_search_recipes ----
    epIn,          \* the request, and what the collaborators do while it is handled
    epOut,         \* whether it was handled, and the response
    \* ---- normalize_search_query ----
    nqIn,          \* the raw query normalize_search_query is called with
    nqOut,         \* whether it was called, and the string it returned
    \* ---- make_llm_call_structured_output_generic ----
    structured_cache,\* llm_structured_cache._data
    structOp,      \* the last step of a structured call: its key, what it found, did and returned
    structCalls,   \* the structured calls past their lookup that have not returned yet (a bag)
    \* ---- make_llm_call_text_generation ----
    text_cache,    \* llm_text_cache._data
    textOp,        \* the last step of a text-generation call: its key, what it found, did and returned
    textStored,    \* history: per key, the contents calls wrote that have not expired or been evicted, the one written last marked
    textCalls,     \* the text calls past their lookup that have not returned yet (a bag)
    \* ---- calls of the embedding provider ----
    embedLog,      \* the texts sent to the embedding provider, with the time of each call
    \* ---- request protection middleware ----
    rlCfg,         \* the settings the middleware stack is built from
    rlBuckets,     \* RateLimitMiddleware._buckets: the admission times of each client IP
    rlOp,          \* the last step of a request: its arrival at the limiter or its answer
    rlPending,     \* the requests the limiter has passed on and call_next has not answered yet (a bag)
    \* ---- threads calling one TTLCache ----
    threads,       \* where each thread is in its call of get, set or delete
    \* ---- concurrent submissions ----
    subs           \* where each of two concurrent process_raw_recipe calls is, and what it has seen

cacheVars == <<ttl_seconds, max_items, data, now, cacheOp, stored, touch>>
dedupeVars == <<strict_duplicate_threshold, distance_threshold, ddEnv, ddRes>>
pipeVars == <<store, on_delete, pipeIn, pipeDup, pipeRes>>
rerankVars == <<rrIn, rrOut>>
searchVars == <<epIn, epOut>>
normVars == <<nqIn, nqOut>>
structVars == <<structured_cache, structOp, structCalls>>
textVars == <<text_cache, textOp, textStored, textCalls>>
embedVars == <<embedLog>>
limitVars == <<rlCfg, rlBuckets, rlOp, rlPending>>
threadVars == <<threads>>
raceVars == <<subs>>

vars == <<ttl_seconds, max_items, data, now, cacheOp, stored, touch,
          strict_duplicate_threshold, distance_threshold, ddEnv, ddRes,
          store, on_delete, pipeIn, pipeDup, pipeRes, rrIn, rrOut, epIn, epOut,
          nqIn, nqOut,
          structured_cache, structOp, structCalls,
          text_cache, textOp, textStored, textCalls,
          embedLog,
          rlCfg, rlBuckets, rlOp, rlPending,
          threads,
          subs>>

\* ------------------------------------------------------------------ bounds
MaxTime == 2
MaxItems == 2
\* the cache-wide ttl of an enabled cache (LLM_CACHE_TTL_SECONDS, scaled down)
DefaultTtl == 2

Keys == {"k1", "k2", "k3"}
Values == {"a", "b"}
Absent == "None"
\* the history of a key: never stored (or deleted, evicted), stored until a time
\* still ahead, or stored and since expired
NoEntry == [state |-> "none", value |-> Absent, until |-> 0]
ExpiredEntry == [state |-> "expired", value |-> Absent, until |-> 0]
LiveEntry(v, until) == [state |-> "live", value |-> v, until |-> until]
\* the ttl_seconds argument of set: <<>> is ttl_seconds=None, <<n>> a given ttl
TtlArgs == {<<>>, <<0>>, <<1>>}
\* what time.monotonic() can return next: the clock never goes back
Clock == {t \in {now, now + 1} : t <= MaxTime}

\* ------------------------------------------------------------------ TTLCache
\* a cache that looks at its capacity only
EnabledIfCapacity == max_items > 0
\* self._enabled = ttl_seconds > 0 and max_items > 0
Enabled == ttl_seconds > 0 /\ max_items > 0

HasKey(d, k) == \E i \in 1..Len(d) : d[i].key = k
EntryOf(d, k) == d[CHOOSE i \in 1..Len(d) : d[i].key = k]
KeysOf(d) == {d[i].key : i \in 1..Len(d)}
\* self._data.pop(key, None)
Pop(d, k) == SelectSeq(d, LAMBDA e : e.key # k)
\* self._data.move_to_end(key)
MoveToEnd(d, k) == IF HasKey(d, k) THEN Append(Pop(d, k), EntryOf(d, k)) ELSE d

\* an entry is expired at time t when entry.expires_at <= t
ExpiredLax(e, t) == e.expires_at < t
Expired(e, t) == e.expires_at <= t

\* TTLCache.get: the map after the call
GetDataNoBump(d, k, t) ==
    IF ~Enabled \/ ~HasKey(d, k) THEN d
    ELSE IF Expired(EntryOf(d, k), t) THEN Pop(d, k)
    ELSE d
GetData(d, k, t) ==
    IF ~Enabled \/ ~HasKey(d, k) THEN d
    ELSE IF Expired(EntryOf(d, k), t) THEN Pop(d, k)
    ELSE MoveToEnd(d, k)

\* TTLCache.get: the value returned
GetRet(d, k, t) ==
    IF ~Enabled \/ ~HasKey(d, k) THEN Absent
    ELSE IF Expired(EntryOf(d, k), t) THEN Absent
    ELSE EntryOf(d, k).value

\* TTLCache._prune: drop the expired entries, then popitem(last=False) while
\* the map is larger than max_items
PruneNewest(d, t) ==
    LET live == SelectSeq(d, LAMBDA e : ~Expired(e, t))
    IN  IF Len(live) > max_items THEN SubSeq(live, 1, max_items) ELSE live
Prune(d, t) ==
    LET live == SelectSeq(d, LAMBDA e : ~Expired(e, t))
    IN  IF Len(live) > max_items
        THEN SubSeq(live, Len(live) - max_items + 1, Len(live))
        ELSE live

\* ttl = self._ttl_seconds if ttl_seconds is None else ttl_seconds
EffectiveTtl(ttlArg) == IF ttlArg = <<>> THEN ttl_seconds ELSE ttlArg[1]

\* the call stores something: the cache is enabled and ttl > 0
SetStores(ttlArg) == Enabled /\ EffectiveTtl(ttlArg) > 0

\* TTLCache.set: the map after the call
SetData(d, k, v, ttlArg, t) ==
    IF ~SetStores(ttlArg) THEN d
    ELSE Prune(Append(Pop(d, k),
                      [key |-> k, expires_at |-> t + EffectiveTtl(ttlArg), value |-> v]),
               t)

\* TTLCache.delete: the map after the call
DeleteData(d, k) == IF ~Enabled THEN d ELSE Pop(d, k)

\* the keys in touch order, k touched last
Touched(seq, k) == Append(SelectSeq(seq, LAMBDA x : x # k), k)
\* the touch order of the keys still in the map d
Among(seq, d) == SelectSeq(seq, LAMBDA x : HasKey(d, x))

\* the keys a set dropped although they had not expired (capacity eviction)
Evicted(pre, post, t) ==
    {j \in KeysOf(pre) : ~Expired(EntryOf(pre, j), t) /\ ~HasKey(post, j)}

\* a cache as constructed: disabled (ttl or capacity zero or negative), of
\* capacity 1, or of the largest capacity examined
InitCacheVars ==
    /\ ttl_seconds \in {-1, 0, DefaultTtl}
    /\ max_items \in {-1, 0, 1, MaxItems}
    /\ data = <<>>
    /\ now = 0
    /\ cacheOp = [op |-> "none", key |-> "k1", ret |-> Absent, stores |-> FALSE,
                  preKeys |-> {}, allLive |-> TRUE, lru |-> "k1"]
    /\ stored = [k \in Keys |-> NoEntry]
    /\ touch = <<>>

\* llm_text_cache and llm_structured_cache as the module builds them from
\* LLM_CACHE_TTL_SECONDS and LLM_CACHE_MAX_ITEMS: disabled (ttl 0), of capacity
\* 1, or of the largest capacity examined
InitLlmCacheVars ==
    /\ ttl_seconds \in {0, DefaultTtl}
    /\ max_items \in {1, MaxItems}
    /\ data = <<>>
    /\ now = 0
    /\ cacheOp = [op |-> "none", key |-> "k1", ret |-> Absent, stores |-> FALSE,
                  preKeys |-> {}, allLive |-> TRUE, lru |-> "k1"]
    /\ stored = [k \in Keys |-> NoEntry]
    /\ touch = <<>>

\* the least recently touched of the keys ks (all of them touched before)
Lru(seq, ks) ==
    IF ks = {} THEN "k1"
    ELSE seq[CHOOSE i \in 1..Len(seq) :
               seq[i] \in ks /\ \A j \in 1..Len(seq) : seq[j] \in ks => i <= j]

\* the history at time t: a set whose time is up counts as expired (t >= t0 + ttl)
AtTime(st, t) ==
    [j \in Keys |-> IF st[j].state = "live" /\ t >= st[j].until THEN ExpiredEntry
                    ELSE st[j]]

\* what a call saw before it ran: the keys, whether all were unexpired, and the
\* least recently touched of them
Before(d, t) ==
    [preKeys |-> KeysOf(d),
     allLive |-> \A j \in KeysOf(d) : ~Expired(EntryOf(d, j), t),
     lru |-> Lru(touch, KeysOf(d))]

\* get(key) at clock reading t
Get(k, t) ==
    /\ now' = t
    /\ data' = GetData(data, k, t)
    /\ cacheOp' = [op |-> "get", key |-> k, ret |-> GetRet(data, k, t), stores |-> FALSE]
                   @@ Before(data, t)
    /\ touch' = Among(IF GetRet(data, k, t) # Absent THEN Touched(touch, k) ELSE touch,
                    data')
    /\ stored' = AtTime(stored, t)
    /\ UNCHANGED <<ttl_seconds, max_items>>

\* set(key, value, ttl_seconds) at clock reading t; it returns None
Set(k, v, ttlArg, t) ==
    /\ now' = t
    /\ data' = SetData(data, k, v, ttlArg, t)
    /\ cacheOp' = [op |-> "set", key |-> k, ret |-> Absent, stores |-> SetStores(ttlArg)]
                   @@ Before(data, t)
    /\ stored' = IF ~SetStores(ttlArg) THEN AtTime(stored, t)
                 ELSE [j \in Keys |->
                         IF j = k THEN LiveEntry(v, t + EffectiveTtl(ttlArg))
                         ELSE IF j \in Evicted(data, data', t) THEN NoEntry
                         ELSE AtTime(stored, t)[j]]
    /\ touch' = Among(IF SetStores(ttlArg) THEN Touched(touch, k) ELSE touch, data')
    /\ UNCHANGED <<ttl_seconds, max_items>>

\* delete(key)
Delete(k) ==
    /\ data' = DeleteData(data, k)
    /\ cacheOp' = [op |-> "delete", key |-> k, ret |-> Absent, stores |-> FALSE]
                   @@ Before(data, now)
    /\ stored' = IF Enabled THEN [stored EXCEPT ![k] = NoEntry] ELSE stored
    /\ touch' = Among(touch, data')
    /\ UNCHANGED <<ttl_seconds, max_items, now>>

\* ------------------------------------------------------------------ find_duplicate
\* _DEFAULT_STRICT_DUPLICATE_DISTANCE_THRESHOLD = 0.05 and
\* _DEFAULT_DISTANCE_THRESHOLD = 0.3, in hundredths
DefaultStrict == 5
DefaultDistance == 30
\* the thresholds a dedupe.config.ini can set: _get_dedupe_settings takes any
\* two floats, in any order
Thresholds == {DefaultStrict, DefaultDistance}
\* cosine distances the vector store can report, in hundredths
Distances == {0, 5, 20, 30, 50}
RecipeIds == {"R1", "R2", "R3"}
None == "None"

\* a row of find_nearest_embedding; distance is <<>> for a NULL distance
NearestRows ==
    [recipe_id : RecipeIds, distance : {<<>>} \cup {<<d>> : d \in Distances}]

\* what the collaborators of one find_duplicate call answer:
\*   embed        make_embedding: "ok", or "raise" (it has no try/except)
\*   nearest      find_nearest_embedding: <<>> for no row, <<row>>, or
\*   nearestFails it raises DatabaseError
\*   full         get_full_recipe: "found", "none", or "raise" (DatabaseError)
\*   judge        make_llm_call_structured_output_generic: (decision, error)
JudgeOutcomes ==
    { [decision |-> "duplicate", error |-> FALSE],
      [decision |-> "distinct", error |-> FALSE],
      [decision |-> None, error |-> TRUE],
      [decision |-> None, error |-> FALSE] }
DedupeEnvs(rows) ==
    [embed : {"ok", "raise"}, nearestFails : BOOLEAN, nearest : rows,
     full : {"found", "none", "raise"}, judge : JudgeOutcomes]

\* find_duplicate ends by returning the tuple ret, or by raising
Returned(isDup, id, calls) ==
    [raised |-> FALSE, ret |-> <<isDup, id, "embedding">>, calls |-> calls]
Raised(calls) == [raised |-> TRUE, ret |-> <<>>, calls |-> calls]

\* distance <= self.strict_duplicate_threshold
AutoDuplicateBelow(d) == d < strict_duplicate_threshold
AutoDuplicate(d) == d <= strict_duplicate_threshold
\* distance > self.distance_threshold
AutoDistinct(d) == d > distance_threshold

\* if error or not decision: fail open; else decision.decision == "duplicate"
JudgedBlocking(j, id, calls) ==
    IF j.decision = "distinct" /\ ~j.error
    THEN Returned(FALSE, None, calls)
    ELSE Returned(TRUE, id, calls)
JudgedIgnored(j, id, calls) == Returned(FALSE, None, calls)
Judged(j, id, calls) ==
    IF j.error \/ j.decision = None THEN Returned(FALSE, None, calls)
    ELSE IF j.decision = "duplicate" THEN Returned(TRUE, id, calls)
    ELSE Returned(FALSE, None, calls)

\* the ambiguous band: get_full_recipe, then the judgment call
Adjudicate(env, id) ==
    IF env.full = "raise" THEN Raised(<<"embed", "nearest", "full">>)
    ELSE IF env.full = "none"
    THEN Returned(FALSE, None, <<"embed", "nearest", "full">>)
    ELSE Judged(env.judge, id, <<"embed", "nearest", "full", "judge">>)

\* RecipeDedupeServiceImpl.find_duplicate
FindDuplicate(env) ==
    IF env.embed = "raise" THEN Raised(<<"embed">>)
    ELSE IF env.nearestFails THEN Raised(<<"embed", "nearest">>)
    ELSE IF env.nearest = <<>> THEN Returned(FALSE, None, <<"embed", "nearest">>)
    ELSE LET row == env.nearest[1]
         IN  IF row.distance = <<>>
             THEN Returned(FALSE, None, <<"embed", "nearest">>)
             ELSE IF AutoDuplicate(row.distance[1])
             THEN Returned(TRUE, row.recipe_id, <<"embed", "nearest">>)
             ELSE IF AutoDistinct(row.distance[1])
             THEN Returned(FALSE, None, <<"embed", "nearest">>)
             ELSE Adjudicate(env, row.recipe_id)

Called(res, what) == \E i \in 1..Len(res.calls) : res.calls[i] = what

\* RecipeDedupeServiceImpl.__init__: the thresholds are taken as configured
InitDedupeVars ==
    /\ strict_duplicate_threshold \in Thresholds
    /\ distance_threshold \in Thresholds
    /\ ddEnv = [embed |-> "ok", nearestFails |-> FALSE, nearest |-> <<>>,
                full |-> "none", judge |-> [decision |-> None, error |-> TRUE]]
    /\ ddRes = [raised |-> FALSE, ret |-> <<>>, calls |-> <<>>]

\* one call of find_duplicate
FindDuplicateCall(env) ==
    /\ ddEnv' = env
    /\ ddRes' = FindDuplicate(env)
    /\ UNCHANGED <<strict_duplicate_threshold, distance_threshold>>

\* ------------------------------------------------------------------ process_raw_recipe
MaxStore == 2
\* the recipes a caller submits, told apart by title and ingredients
Contents == {"c1", "c2", "c3"}
\* cosine distance between the title+ingredients embeddings of two recipes, in
\* hundredths: the same recipe is at 0, c1 and c2 are near, c3 is far from both
DistanceBetween(a, b) ==
    IF a = b THEN 0
    ELSE IF {a, b} = {"c1", "c2"} THEN 20
    ELSE 50
\* RecipeManager._generate_id: a fresh id for the n-th insert
IdNames == <<"R1", "R2", "R3", "R4", "R5", "R6">>
GenerateId(n) == IdNames[n]

\* the tables are created outside this code: recipe_embeddings.recipe_id may
\* refer to recipes(id) with ON DELETE CASCADE, refer to it without (a recipe
\* that has embeddings cannot be deleted), or not refer to it at all
OnDeleteRules == {"cascade", "restrict", "none"}

\* a row of the recipes table with the rows of recipe_embeddings that carry
\* its id: content is the title and ingredients of the recipe, embeddings the
\* texts whose embeddings are stored for it; a deleted recipe stays in the
\* sequence, marked, so that no id is given out twice, and keeps the
\* embedding rows that the schema left behind
Record(id, c, embedded) ==
    [id |-> id, content |-> c, embeddings |-> embedded, present |-> TRUE]
\* the rows of recipe_embeddings: the recipe that holds each and its text
EmbeddingRows(st) ==
    {<<i, e>> \in (1..Len(st)) \X Contents : e \in st[i].embeddings}
\* the ids of the recipes in the store
PresentIds(st) == {st[i].id : i \in {i \in 1..Len(st) : st[i].present}}

\* find_nearest_embedding over the store: ORDER BY distance LIMIT 1; no row when
\* no embedding is stored, any of the nearest rows on a tie
NearestIn(st, c) ==
    IF EmbeddingRows(st) = {} THEN {<<>>}
    ELSE { <<[recipe_id |-> st[r[1]].id, distance |-> <<DistanceBetween(c, r[2])>>]>> :
             r \in { r \in EmbeddingRows(st) :
                       \A q \in EmbeddingRows(st) :
                          DistanceBetween(c, r[2]) <= DistanceBetween(c, q[2]) } }

\* the tuple process_raw_recipe returns: (recipe_id, error_message, created)
Failure(msg) == [recipe_id |-> None, error |-> msg, created |-> FALSE]
Existing(id) == [recipe_id |-> id, error |-> None, created |-> FALSE]
Created(id) == [recipe_id |-> id, error |-> None, created |-> TRUE]

NotChecked == [called |-> FALSE, raised |-> FALSE, ret |-> <<>>]
Checked(res) == [called |-> TRUE, raised |-> res.raised, ret |-> res.ret]

\* is_duplicate, existing_id = self.dedupe_service.find_duplicate(recipe):
\* unpacking into two names raises ValueError unless the tuple has two items
UnpacksIntoTwo(t) == Len(t) = 2

\* steps 3 to 5 of process_raw_recipe, inside its try/except Exception
AfterExtraction(c, enforce, dd, emb, ins) ==
    IF enforce /\ dd.raised THEN Failure("Recipe processing failed")
    ELSE IF enforce /\ ~UnpacksIntoTwo(dd.ret) THEN Failure("Recipe processing failed")
    ELSE IF enforce /\ dd.ret[1] /\ dd.ret[2] # None THEN Existing(dd.ret[2])
    ELSE IF emb = "raise" THEN Failure("Failed to generate recipe embeddings")
    ELSE IF ins = "raise" THEN Failure("Failed to store recipe in database")
    ELSE Created(GenerateId(Len(store) + 1))

\* no process_raw_recipe call was the last step
NoPipeCall(in, dup, res) ==
    /\ in = [content |-> "c1", enforce |-> FALSE, called |-> FALSE]
    /\ dup = NotChecked
    /\ res = Failure(None)

InitPipeVars ==
    /\ store = <<>>
    /\ on_delete \in OnDeleteRules
    /\ NoPipeCall(pipeIn, pipeDup, pipeRes)

\* what the collaborators of find_duplicate can answer in a call of
\* process_raw_recipe: find_duplicate is called only when deduplication is
\* enforced, so without it their answers are left open
CheckedEnvs(enforce, row) ==
    IF enforce THEN DedupeEnvs({row})
    ELSE {[embed |-> "ok", nearestFails |-> FALSE, nearest |-> row, full |-> "none",
           judge |-> [decision |-> None, error |-> TRUE]]}

\* process_raw_recipe(raw_input, enforce_deduplication=enforce) for a raw input
\* that describes recipe c; cleanup, extract, emb and ins are the answers of the
\* cleanup service, the extractor, the embeddings service and the insert
ProcessRawRecipe(c, enforce) ==
    /\ Len(store) < MaxStore
    /\ pipeIn' = [content |-> c, enforce |-> enforce, called |-> TRUE]
    /\ \E cleanup \in {"ok", "empty", "raise"}, extract \in {"ok", "error", "raise"} :
        IF cleanup # "ok"
        THEN /\ pipeRes' = Failure("Failed to cleanup input text")
             /\ pipeDup' = NotChecked
             /\ store' = store
        ELSE IF extract # "ok"
        THEN /\ pipeRes' = Failure("Recipe extraction failed")
             /\ pipeDup' = NotChecked
             /\ store' = store
        ELSE \E row \in NearestIn(store, c) :
             \E env \in CheckedEnvs(enforce, row), emb \in {"ok", "raise"},
                ins \in {"ok", "raise"} :
                LET dd == FindDuplicate(env)
                    res == AfterExtraction(c, enforce, dd, emb, ins)
                IN  /\ pipeRes' = res
                    /\ pipeDup' = IF enforce THEN Checked(dd) ELSE NotChecked
                    /\ store' = IF res.created
                                THEN Append(store, Record(res.recipe_id, c, {c}))
                                ELSE store

\* RecipeManager.create_recipe: a recipe row without an embedding
CreateRecipe(c) ==
    /\ Len(store) < MaxStore
    /\ store' = Append(store, Record(GenerateId(Len(store) + 1), c, {}))

\* RecipeManager.create_recipe_embedding for a recipe of the store: one more
\* row of recipe_embeddings
CreateRecipeEmbedding(id, c) ==
    /\ id \in PresentIds(store)
    /\ store' = [i \in 1..Len(store) |->
                    IF store[i].id = id
                    THEN [store[i] EXCEPT !.embeddings = @ \cup {c}]
                    ELSE store[i]]

\* RecipeManager.update_recipe(recipe_id, title=...): the recipe row changes,
\* the stored embeddings do not
UpdateRecipe(id, c) ==
    /\ id \in PresentIds(store)
    /\ store' = [i \in 1..Len(store) |->
                    IF store[i].id = id THEN [store[i] EXCEPT !.content = c]
                    ELSE store[i]]

\* RecipeManager.delete_recipe (DELETE /recipes/delete/{recipe_id}): DELETE
\* FROM recipes WHERE id = ..., which removes the recipe row. Its embedding
\* rows go with it when the schema cascades and stay behind when the schema
\* has no foreign key; a foreign key without cascade makes the statement fail
\* for a recipe that has embeddings (DatabaseError, nothing changes). Nothing
\* changes for an unknown id
DeleteRecipe(id) ==
    store' = [i \in 1..Len(store) |->
                 IF store[i].id # id THEN store[i]
                 ELSE IF on_delete = "cascade"
                 THEN [store[i] EXCEPT !.present = FALSE, !.embeddings = {}]
                 ELSE IF on_delete = "none" \/ store[i].embeddings = {}
                 THEN [store[i] EXCEPT !.present = FALSE]
                 ELSE store[i]]

\* ------------------------------------------------------------------ text
\* A string is a sequence of one-character strings.
Letters ==
    {"a", "b", "c", "d", "e", "f", "g", "h", "i", "j", "k", "l", "m",
     "n", "o", "p", "q", "r", "s", "t", "u", "v", "w", "x", "y", "z"}
\* str.lower() on the capital letters
LowerOf ==
    [A |-> "a", B |-> "b", C |-> "c", D |-> "d", E |-> "e", F |-> "f", G |-> "g",
     H |-> "h", I |-> "i", J |-> "j", K |-> "k", L |-> "l", M |-> "m", N |-> "n",
     O |-> "o", P |-> "p", Q |-> "q", R |-> "r", S |-> "s", T |-> "t", U |-> "u",
     V |-> "v", W |-> "w", X |-> "x", Y |-> "y", Z |-> "z"]
Lower(s) == [i \in 1..Len(s) |-> IF s[i] \in DOMAIN LowerOf THEN LowerOf[s[i]] ELSE s[i]]

\* the characters str.split() and str.strip() take for whitespace
IsWs(c) == c \in {" ", "\t"}
\* a set of wrapping quotes without the apostrophe
OnlyDoubleQuote == {"\""}
\* WRAPPING_QUOTES
WRAPPING_QUOTES == {"\"", "'"}

\* the length of the run of non-whitespace characters that s starts with
RECURSIVE WordLen(_)
WordLen(s) == IF s = <<>> \/ IsWs(Head(s)) THEN 0 ELSE 1 + WordLen(Tail(s))

\* s.strip().split(): the maximal runs of non-whitespace characters
RECURSIVE SplitWs(_)
SplitWs(s) ==
    IF s = <<>> THEN <<>>
    ELSE IF IsWs(Head(s)) THEN SplitWs(Tail(s))
    ELSE <<SubSeq(s, 1, WordLen(s))>> \o SplitWs(SubSeq(s, WordLen(s) + 1, Len(s)))

\* " ".join(words)
RECURSIVE JoinSpace(_)
JoinSpace(ws) ==
    IF ws = <<>> THEN <<>>
    ELSE IF Len(ws) = 1 THEN ws[1]
    ELSE ws[1] \o <<" ">> \o JoinSpace(Tail(ws))

\* " ".join(s.strip().split())
CollapseWs(s) == JoinSpace(SplitWs(s))

\* a normalization that leaves what was between the quotes as it is
normalize_without_recollapse(raw_query) ==
    LET normalized == CollapseWs(raw_query)
    IN  IF /\ Len(normalized) >= 2
           /\ normalized[1] = normalized[Len(normalized)]
           /\ normalized[1] \in WRAPPING_QUOTES
        THEN SubSeq(normalized, 2, Len(normalized) - 1)
        ELSE normalized
\* normalize_search_query
normalize_search_query(raw_query) ==
    LET normalized == CollapseWs(raw_query)
    IN  IF /\ Len(normalized) >= 2
           /\ normalized[1] = normalized[Len(normalized)]
           /\ normalized[1] \in WRAPPING_QUOTES
        THEN CollapseWs(SubSeq(normalized, 2, Len(normalized) - 1))
        ELSE normalized

\* _tokenize: TOKEN_PATTERN.findall(str(value).lower()) as a set, the maximal
\* runs of the letters a-z
Tokenize(value) ==
    LET s == Lower(value)
    IN  { SubSeq(s, i, j) : <<i, j>> \in
            { p \in (1..Len(s)) \X (1..Len(s)) :
                /\ p[1] <= p[2]
                /\ \A k \in p[1]..p[2] : s[k] \in Letters
                /\ (p[1] = 1 \/ s[p[1] - 1] \notin Letters)
                /\ (p[2] = Len(s) \/ s[p[2] + 1] \notin Letters) } }

\* CUISINE_KEYWORDS
CuisineNames == {"indian", "thai", "italian", "japanese"}
CUISINE_KEYWORDS(cuisine) ==
    IF cuisine = "indian" THEN
      { <<"i", "n", "d", "i", "a", "n">>, <<"p", "a", "n", "e", "e", "r">>,
        <<"t", "i", "k", "k", "a">>, <<"m", "a", "s", "a", "l", "a">>,
        <<"a", "l", "o", "o">>, <<"g", "o", "b", "i">>, <<"c", "h", "a", "n", "a">>,
        <<"d", "a", "l">>, <<"g", "a", "r", "a", "m">>, <<"k", "o", "r", "m", "a">>,
        <<"v", "i", "n", "d", "a", "l", "o", "o">>, <<"s", "a", "a", "g">> }
    ELSE IF cuisine = "thai" THEN
      { <<"t", "h", "a", "i">>, <<"l", "e", "m", "o", "n", "g", "r", "a", "s", "s">>,
        <<"g", "a", "l", "a", "n", "g", "a", "l">>, <<"b", "a", "s", "i", "l">>,
        <<"c", "o", "c", "o", "n", "u", "t">>, <<"k", "a", "f", "f", "i", "r">>,
        <<"k", "r", "a", "p", "o", "w">>, <<"t", "o", "m">>, <<"y", "u", "m">> }
    ELSE IF cuisine = "italian" THEN
      { <<"i", "t", "a", "l", "i", "a", "n">>, <<"p", "a", "s", "t", "a">>,
        <<"l", "a", "s", "a", "g", "n", "a">>,
        <<"s", "p", "a", "g", "h", "e", "t", "t", "i">>, <<"p", "e", "n", "n", "e">>,
        <<"r", "i", "s", "o", "t", "t", "o">>,
        <<"p", "a", "r", "m", "e", "s", "a", "n">>,
        <<"p", "e", "c", "o", "r", "i", "n", "o">> }
    ELSE
      { <<"j", "a", "p", "a", "n", "e", "s", "e">>, <<"u", "d", "o", "n">>,
        <<"r", "a", "m", "e", "n">>, <<"m", "i", "s", "o">>,
        <<"d", "a", "s", "h", "i">>, <<"t", "e", "r", "i", "y", "a", "k", "i">> }
\* CURRY_FAMILY_KEYWORDS
CURRY_FAMILY_KEYWORDS ==
    { <<"c", "u", "r", "r", "y">>, <<"m", "a", "s", "a", "l", "a">>,
      <<"k", "o", "r", "m", "a">>, <<"v", "i", "n", "d", "a", "l", "o", "o">>,
      <<"s", "a", "a", "g">>, <<"a", "l", "o", "o">>, <<"g", "o", "b", "i">>,
      <<"c", "h", "a", "n", "a">>, <<"t", "i", "k", "k", "a">>, <<"d", "a", "l">> }

\* _infer_cuisines
InferCuisines(tokens) == {c \in CuisineNames : tokens \cap CUISINE_KEYWORDS(c) # {}}
\* _curry_intent
CurryIntent(tokens) == tokens \cap CURRY_FAMILY_KEYWORDS # {}

\* ------------------------------------------------------------------ apply_rerank
MaxRanked == 2
MaxLimit == 2

\* the rows the vector store can answer with, nearest first
Pool ==
    << [id |-> "m1", name |-> <<"C", "h", "a", "n", "a", " ", "M", "a", "s", "a", "l", "a">>, distance |-> <<9>>],
       [id |-> "m2", name |-> <<"S", "i", "m", "p", "l", "e", " ", "P", "a", "s", "t", "a">>, distance |-> <<11>>],
       [id |-> "m3", name |-> <<"T", "h", "a", "i", " ", "C", "u", "r", "r", "y">>, distance |-> <<16>>] >>
\* a search result without any score field: the optional keys of the dict are
\* <<>> while absent and <<value>> once set
Unscored(hit) ==
    [id |-> hit.id, name |-> hit.name, distance |-> hit.distance,
     rerank_score |-> <<>>, embedding_score |-> <<>>, combined_score |-> <<>>,
     raw_rerank_score |-> <<>>, cuisine_boost |-> <<>>, family_boost |-> <<>>,
     rerank_mode |-> <<>>]
\* the sub-lists of a list, order kept
RECURSIVE SubLists(_)
SubLists(s) ==
    IF s = <<>> THEN {<<>>}
    ELSE LET rest == SubLists(Tail(s))
         IN  rest \cup {<<Head(s)>> \o r : r \in rest}
MatchLists == {[i \in 1..Len(s) |-> Unscored(s[i])] : s \in SubLists(Pool)}
\* the candidate lists apply_rerank is called with: those, and the second recipe
\* further than 1.0 or without a distance, alone or sorted after the first
WithSecondAt(distance_value) ==
    <<Pool[1], [Pool[2] EXCEPT !.distance = distance_value]>>
RerankMatchLists ==
    {[i \in 1..Len(s) |-> Unscored(s[i])] :
        s \in SubLists(Pool)
                \cup {WithSecondAt(dv) : dv \in {<<120>>, <<>>}}
                \cup {Tail(WithSecondAt(dv)) : dv \in {<<120>>, <<>>}}}

\* what a reranker can answer: ids of candidates and an id it made up, scores
\* as given (<<>> is a score that is not a number)
RankedIds == {"m1", "m2", "zz"}
RankedScores == {<<>>, <<15>>, <<30>>, <<90>>}
RankedItems == [id : RankedIds, score : RankedScores]
RECURSIVE ListsUpTo(_, _)
ListsUpTo(S, n) ==
    IF n = 0 THEN {<<>>}
    ELSE LET shorter == ListsUpTo(S, n - 1)
         IN  shorter \cup {Append(l, x) : l \in {m \in shorter : Len(m) = n - 1}, x \in S}
RankedLists == ListsUpTo(RankedItems, MaxRanked)

\* the queries apply_rerank is called with: <<>> is None (or ""), both falsy
NoQuery == <<>>
QueryCurry == <<"c", "u", "r", "r", "y">>
\* a query that names a cuisine as well: curry pasta
QueryCurryPasta ==
    <<"c", "u", "r", "r", "y", " ", "p", "a", "s", "t", "a">>

\* min(max(x, 0.0), 1.0)
Clamp01(x) == IF x < 0 THEN 0 ELSE IF x > 100 THEN 100 ELSE x
\* max(x, 0.0)
AtLeastZero(x) == IF x < 0 THEN 0 ELSE x

\* _embedding_score_from_distance without the clamp of the distance
EmbeddingScoreUnclamped(distance_value) ==
    IF distance_value = <<>> THEN 0 ELSE 100 - distance_value[1]
\* _embedding_score_from_distance
EmbeddingScoreFromDistance(distance_value) ==
    IF distance_value = <<>> THEN 0 ELSE 100 - Clamp01(distance_value[1])

\* _compute_boosts: the boosts applied, as [total, cuisine, family]
ComputeBoosts(query, candidate_name, cuisine_boost, family_boost) ==
    LET query_tokens == Tokenize(query)
        candidate_tokens == Tokenize(candidate_name)
        applied_cuisine ==
            IF InferCuisines(query_tokens) \cap InferCuisines(candidate_tokens) # {}
            THEN AtLeastZero(cuisine_boost) ELSE 0
        applied_family ==
            IF CurryIntent(query_tokens) /\ CurryIntent(candidate_tokens)
            THEN AtLeastZero(family_boost) ELSE 0
    IN  IF query = <<>> \/ query_tokens = {} \/ candidate_tokens = {}
        THEN [total |-> 0, cuisine |-> 0, family |-> 0]
        ELSE [total |-> applied_cuisine + applied_family,
              cuisine |-> applied_cuisine, family |-> applied_family]

\* match_by_id: the ids of the matches, and the match an id stands for (the last)
MatchIds(matches) == {matches[i].id : i \in 1..Len(matches)} \ {None}
MatchById(matches, id) ==
    matches[CHOOSE i \in 1..Len(matches) :
                /\ matches[i].id = id
                /\ \A j \in 1..Len(matches) : matches[j].id = id => j <= i]

\* ranked_ids_found, as a reranker bug would compute it: any answer counts
RankedIdsFoundAny(matches, ranked_items) == ranked_items # <<>>
\* ranked_ids_found: some ranked item names a match
RankedIdsFound(matches, ranked_items) ==
    \E i \in 1..Len(ranked_items) :
        ranked_items[i].id # None /\ ranked_items[i].id \in MatchIds(matches)

\* the row _rank_matches builds for a ranked item that passed the cut
ScoredRow(match, raw_rerank_score, boosts, rerank_weight, rerank_mode) ==
    LET rerank_score == Clamp01(raw_rerank_score + boosts.total)
        embedding_score == EmbeddingScoreFromDistance(match.distance)
    IN  [match EXCEPT
            !.rerank_score = <<rerank_score>>,
            !.embedding_score = <<embedding_score>>,
            !.combined_score = <<Clamp01(rerank_weight) * rerank_score
                                 + (100 - Clamp01(rerank_weight)) * embedding_score>>,
            !.raw_rerank_score =
                IF rerank_score # raw_rerank_score THEN <<raw_rerank_score>> ELSE @,
            !.cuisine_boost = IF boosts.cuisine > 0 THEN <<boosts.cuisine>> ELSE @,
            !.family_boost = IF boosts.family > 0 THEN <<boosts.family>> ELSE @,
            !.rerank_mode = IF rerank_mode # <<>> THEN rerank_mode ELSE @]

\* the loop of _rank_matches over ranked_items: ordered_matches before the sort
RECURSIVE OrderedMatches(_, _, _, _)
OrderedMatches(matches, ranked_items, used_ids, p) ==
    IF ranked_items = <<>> THEN <<>>
    ELSE
      LET ranked == Head(ranked_items)
          recipe_id == ranked.id
          skip == OrderedMatches(matches, Tail(ranked_items), used_ids, p)
      IN  IF recipe_id = None \/ recipe_id \in used_ids
             \/ recipe_id \notin MatchIds(matches)
          THEN skip
          ELSE IF ranked.score = <<>> THEN skip
          ELSE
            LET match == MatchById(matches, recipe_id)
                boosts == ComputeBoosts(p.query, match.name,
                                        p.cuisine_boost, p.family_boost)
            IN  IF Clamp01(ranked.score[1] + boosts.total) < Clamp01(p.min_rerank_score)
                THEN skip
                ELSE <<ScoredRow(match, ranked.score[1], boosts,
                                 p.rerank_weight, p.rerank_mode)>>
                     \o OrderedMatches(matches, Tail(ranked_items),
                                       used_ids \cup {recipe_id}, p)

\* item.get("combined_score", 0.0)
CombinedOf(row) == IF row.combined_score = <<>> THEN 0 ELSE row.combined_score[1]
\* an insertion that puts a row after the rows of equal combined_score
RECURSIVE InsertAfterEquals(_, _)
InsertAfterEquals(row, sorted) ==
    IF sorted = <<>> THEN <<row>>
    ELSE IF CombinedOf(Head(sorted)) >= CombinedOf(row)
         THEN <<Head(sorted)>> \o InsertAfterEquals(row, Tail(sorted))
         ELSE <<row>> \o sorted
\* list.sort(key=combined_score, reverse=True): stable, equal keys keep their order
RECURSIVE InsertByCombined(_, _)
InsertByCombined(row, sorted) ==
    IF sorted = <<>> THEN <<row>>
    ELSE IF CombinedOf(Head(sorted)) > CombinedOf(row)
         THEN <<Head(sorted)>> \o InsertByCombined(row, Tail(sorted))
         ELSE <<row>> \o sorted
RECURSIVE SortByCombined(_)
SortByCombined(rows) ==
    IF rows = <<>> THEN <<>>
    ELSE InsertByCombined(Head(rows), SortByCombined(Tail(rows)))

\* _rank_matches: (ordered_matches, ranked_ids_found)
RankMatches(matches, ranked_items, p) ==
    [rows |-> SortByCombined(OrderedMatches(matches, ranked_items, {}, p)),
     found |-> RankedIdsFound(matches, ranked_items)]

\* a slice that keeps the whole list
TakeAll(lst, limit) == lst
\* lst[:limit] for a limit >= 0
Take(lst, limit) == SubSeq(lst, 1, IF limit < Len(lst) THEN limit ELSE Len(lst))

\* the test before the fallback pass, taking an equal threshold for a lower one
FallbackAllowedOrEqual(a) ==
    /\ a.fallback_min_rerank_score # <<>>
    /\ Clamp01(a.fallback_min_rerank_score[1]) <= Clamp01(a.min_rerank_score)
\* apply_rerank goes on to a fallback pass: normalized_fallback_min is not None and
\* is below the clamped min_rerank_score
FallbackAllowed(a) ==
    /\ a.fallback_min_rerank_score # <<>>
    /\ Clamp01(a.fallback_min_rerank_score[1]) < Clamp01(a.min_rerank_score)

\* apply_rerank with a fallback pass that is not handed the query and the boosts
ApplyRerankUnboosted(a) ==
    LET strict == RankMatches(a.matches, a.ranked_items,
                    [min_rerank_score |-> a.min_rerank_score,
                     rerank_weight |-> a.rerank_weight,
                     query |-> NoQuery, cuisine_boost |-> 0, family_boost |-> 0,
                     rerank_mode |-> <<>>])
        fallback == RankMatches(a.matches, a.ranked_items,
                    [min_rerank_score |-> Clamp01(a.fallback_min_rerank_score[1]),
                     rerank_weight |-> a.rerank_weight,
                     query |-> NoQuery, cuisine_boost |-> 0, family_boost |-> 0,
                     rerank_mode |-> <<"fallback">>])
    IN  IF a.ranked_items = <<>> THEN Take(a.matches, a.limit)
        ELSE IF ~strict.found THEN Take(a.matches, a.limit)
        ELSE IF strict.rows # <<>> THEN Take(strict.rows, a.limit)
        ELSE IF ~FallbackAllowed(a) THEN <<>>
        ELSE Take(fallback.rows, a.limit)

\* apply_rerank; a is its arguments, fallback_min_rerank_score being <<>> for None
ApplyRerank(a) ==
    LET strict == RankMatches(a.matches, a.ranked_items,
                    [min_rerank_score |-> a.min_rerank_score,
                     rerank_weight |-> a.rerank_weight,
                     query |-> NoQuery, cuisine_boost |-> 0, family_boost |-> 0,
                     rerank_mode |-> <<>>])
        fallback == RankMatches(a.matches, a.ranked_items,
                    [min_rerank_score |-> Clamp01(a.fallback_min_rerank_score[1]),
                     rerank_weight |-> a.rerank_weight,
                     query |-> a.query, cuisine_boost |-> a.cuisine_boost,
                     family_boost |-> a.family_boost,
                     rerank_mode |-> <<"fallback">>])
    IN  IF a.ranked_items = <<>> THEN Take(a.matches, a.limit)
        ELSE IF ~strict.found THEN Take(a.matches, a.limit)
        ELSE IF strict.rows # <<>> THEN Take(strict.rows, a.limit)
        ELSE IF ~FallbackAllowed(a) THEN <<>>
        ELSE Take(fallback.rows, a.limit)

\* the calls of _rank_matches that apply_rerank makes, in their order
RerankPasses(a) ==
    IF a.ranked_items = <<>> THEN <<>>
    ELSE IF ~RankedIdsFound(a.matches, a.ranked_items) THEN <<"strict">>
    ELSE IF RankMatches(a.matches, a.ranked_items,
                [min_rerank_score |-> a.min_rerank_score,
                 rerank_weight |-> a.rerank_weight,
                 query |-> NoQuery, cuisine_boost |-> 0, family_boost |-> 0,
                 rerank_mode |-> <<>>]).rows # <<>> THEN <<"strict">>
    ELSE IF ~FallbackAllowed(a) THEN <<"strict">>
    ELSE <<"strict", "fallback">>

\* the defaults of apply_rerank's parameters
DefaultMinRerankScore == 40
DefaultFallbackMinRerankScore == 25
DefaultRerankWeight == 70

\* settings.SEMANTIC_SEARCH_RERANK_CANDIDATE_COUNT, its default
SEMANTIC_SEARCH_RERANK_CANDIDATE_COUNT == 15
\* the settings object as Settings.__init__ builds it: of the attributes the
\* search endpoint reads it sets these (rerank_enabled is drawn per request)
Settings ==
    [SEMANTIC_SEARCH_MAX_DISTANCE |-> 22,
     SEMANTIC_SEARCH_RERANK_CANDIDATE_COUNT |-> SEMANTIC_SEARCH_RERANK_CANDIDATE_COUNT]
\* the attributes the endpoint reads for apply_rerank, in the order it reads them
RerankSettings ==
    <<"SEMANTIC_SEARCH_RERANK_MIN_SCORE", "SEMANTIC_SEARCH_RERANK_FALLBACK_MIN_SCORE",
      "SEMANTIC_SEARCH_RERANK_WEIGHT", "SEMANTIC_SEARCH_RERANK_CUISINE_BOOST",
      "SEMANTIC_SEARCH_RERANK_FAMILY_BOOST">>
\* reading an attribute the object does not have raises AttributeError
RaisesAttributeError(names) == \E i \in 1..Len(names) : names[i] \notin DOMAIN Settings
\* the boosts the callers of apply_rerank pass (0.15 and 0.10)
CuisineBoost == 15
FamilyBoost == 10

\* the limits asked for: the smallest one and the largest one examined
Limits == {1, MaxLimit}
\* a strict and a fallback threshold above 1.0, which clamp to the same value
HighMinRerankScore == 150
HighFallbackMinRerankScore == 120
\* calls of apply_rerank with the weight and the boosts as configured
RerankCallsWith(min_scores, fallback_min_scores, queries) ==
    [matches : RerankMatchLists, ranked_items : RankedLists, limit : Limits,
     min_rerank_score : min_scores,
     fallback_min_rerank_score : fallback_min_scores,
     rerank_weight : {DefaultRerankWeight},
     query : queries,
     cuisine_boost : {CuisineBoost},
     family_boost : {FamilyBoost}]
\* the calls of apply_rerank examined: its default cuts and weight and the boosts
\* as configured; with a query, a fallback cut absent, lower than and equal to
\* the strict one, and both cuts above 1.0; without a query, the default cuts
RerankCalls ==
    RerankCallsWith({DefaultMinRerankScore},
                    {<<>>, <<DefaultFallbackMinRerankScore>>, <<DefaultMinRerankScore>>},
                    {QueryCurryPasta})
    \cup RerankCallsWith({DefaultMinRerankScore}, {<<DefaultFallbackMinRerankScore>>},
                         {NoQuery})
    \cup RerankCallsWith({HighMinRerankScore}, {<<HighFallbackMinRerankScore>>},
                         {QueryCurryPasta})

\* candidate lists with equal embedding scores: the two recipes at one
\* distance, as the vector store orders them, and the second without a
\* distance ahead of the first further than 1.0
TiedMatchLists ==
    {[i \in 1..Len(s) |-> Unscored(s[i])] :
        s \in {<<Pool[1], Pool[2]>>,
               <<Pool[1], [Pool[2] EXCEPT !.distance = Pool[1].distance]>>,
               <<[Pool[2] EXCEPT !.distance = <<>>],
                 [Pool[1] EXCEPT !.distance = <<120>>]>>}}
\* scores handed to apply_rerank directly, also at and above 1.0
WideScores == {<<30>>, <<90>>, <<100>>, <<150>>}
WideRankedLists == ListsUpTo([id : {"m1", "m2"}, score : WideScores], MaxRanked)
\* calls of apply_rerank by a caller other than the endpoint: any score, a
\* strict cut as configured or above 1.0, with and without a query
WideRerankCalls ==
    [matches : TiedMatchLists, ranked_items : WideRankedLists, limit : Limits,
     min_rerank_score : {DefaultMinRerankScore, HighMinRerankScore},
     fallback_min_rerank_score : {<<DefaultFallbackMinRerankScore>>},
     rerank_weight : {DefaultRerankWeight},
     query : {NoQuery, QueryCurryPasta},
     cuisine_boost : {CuisineBoost},
     family_boost : {FamilyBoost}]
InitRerankWideVars ==
    /\ rrIn \in WideRerankCalls
    /\ rrOut = [done |-> FALSE, rows |-> <<>>, passes |-> <<>>]

InitRerankVars ==
    /\ rrIn \in RerankCalls
    /\ rrOut = [done |-> FALSE, rows |-> <<>>, passes |-> <<>>]

\* one call of apply_rerank with the arguments drawn
ApplyRerankCall ==
    /\ ~rrOut.done
    /\ rrOut' = [done |-> TRUE, rows |-> ApplyRerank(rrIn),
                 passes |-> RerankPasses(rrIn)]
    /\ UNCHANGED rrIn

\* ------------------------------------------------------------------ semantic search
\* the raw query strings of the requests examined: curry, "thai  curry" in
\* double quotes with a doubled blank, and 'a' in single quotes
RawQueries ==
    { <<"c", "u", "r", "r", "y">>,
      <<"\"", "t", "h", "a", "i", " ", " ", "c", "u", "r", "r", "y", "\"">>,
      <<"'", "a", "'">> }

\* what the reranker service does when called: it raises, or it is
\* RecipeSearchRerankerServiceImpl and the judgment call answers (None, error),
\* (None, None) or a parsed response
RerankerOutcomes == {"raise", "error", "null", "response"}
\* the scores the judgment provider can put in its JSON: those above and one
\* outside 0..1, which RankedCandidate rejects
ProviderScores == RankedScores \cup {<<150>>}
ProviderLists == ListsUpTo([id : RankedIds, score : ProviderScores], MaxRanked)
\* the requests examined with what the collaborators do while they are handled;
\* ranked is the "ranked" list of the provider's JSON, <<>> where there is none
Collaborators ==
    LET quiet(embed, search, enabled, reranker) ==
            [rerank_enabled |-> enabled, embed |-> embed, search |-> search,
             reranker |-> reranker, ranked |-> <<>>]
    IN  {quiet("raise", "ok", e, "null") : e \in BOOLEAN}
        \cup {quiet("ok", "raise", e, "null") : e \in BOOLEAN}
        \cup {quiet("ok", "ok", FALSE, "null")}
        \cup {quiet("ok", "ok", TRUE, o) : o \in RerankerOutcomes \ {"response"}}
        \cup {[rerank_enabled |-> TRUE, embed |-> "ok", search |-> "ok",
               reranker |-> "response", ranked |-> l] : l \in ProviderLists}
SearchRequests ==
    {[query |-> q, limit |-> n, rows |-> rows,
      rerank_enabled |-> c.rerank_enabled, embed |-> c.embed, search |-> c.search,
      reranker |-> c.reranker, ranked |-> c.ranked] :
        q \in RawQueries, n \in Limits, rows \in MatchLists, c \in Collaborators}

\* build_rerank_candidates; the ingredient previews are best effort and empty here
BuildRerankCandidates(matches) ==
    [i \in 1..Len(matches) |->
        [id |-> matches[i].id, name |-> matches[i].name,
         distance |-> matches[i].distance, ingredients_preview |-> <<>>]]

\* RerankResponse.model_validate: every score is a number within 0..1
ValidRerankResponse(ranked) ==
    \A i \in 1..Len(ranked) :
        /\ ranked[i].score # <<>>
        /\ ranked[i].score[1] >= 0
        /\ ranked[i].score[1] <= 100

\* RecipeSearchRerankerServiceImpl.rerank: the ranked items it returns
Rerank(query, candidates, outcome, ranked) ==
    IF SplitWs(query) = <<>> THEN <<>>
    ELSE IF candidates = <<>> THEN <<>>
    ELSE IF outcome # "response" THEN <<>>
    ELSE IF ~ValidRerankResponse(ranked) THEN <<>>
    ELSE ranked

\* the endpoint's rerank step: ranked_items = [] unless rerank returned a list
TryRerank(query, matches, outcome, ranked) ==
    [raised |-> FALSE,
     ranked_items |-> IF outcome = "raise" THEN <<>>
                      ELSE Rerank(query, BuildRerankCandidates(matches), outcome, ranked)]

\* the responses of the endpoint
HttpError(status_code) ==
    [status |-> status_code, success |-> FALSE, query |-> <<>>, count |-> 0,
     results |-> <<>>]
HttpOk(normalized_query, matches) ==
    [status |-> 200, success |-> TRUE, query |-> normalized_query,
     count |-> Len(matches), results |-> matches]

\* candidate_limit
CandidateLimit(req) ==
    IF req.rerank_enabled /\ SEMANTIC_SEARCH_RERANK_CANDIDATE_COUNT > req.limit
    THEN SEMANTIC_SEARCH_RERANK_CANDIDATE_COUNT ELSE req.limit

\* RecipeManager.search_recipes_by_embedding: the nearest rows, at most limit
SearchRecipesByEmbedding(rows, limit) == Take(rows, limit)

\* semantic_search_recipes: the response to a request
SemanticSearchRecipes(req) ==
    LET normalized_query == normalize_search_query(req.query)
        matches == SearchRecipesByEmbedding(req.rows, CandidateLimit(req))
        step == TryRerank(normalized_query, matches, req.reranker, req.ranked)
    IN  IF Len(normalized_query) < 2 THEN HttpError(422)
        ELSE IF req.embed = "raise" THEN HttpError(500)
        ELSE IF req.search = "raise" THEN HttpError(500)
        ELSE IF req.rerank_enabled /\ Len(matches) > 1
        THEN IF step.raised THEN HttpError(500)
             ELSE IF RaisesAttributeError(RerankSettings) THEN HttpError(500)
             ELSE HttpOk(normalized_query,
                    ApplyRerank(
                      [matches |-> matches, ranked_items |-> step.ranked_items,
                       limit |-> req.limit,
                       min_rerank_score |-> Settings.SEMANTIC_SEARCH_RERANK_MIN_SCORE,
                       fallback_min_rerank_score |->
                            Settings.SEMANTIC_SEARCH_RERANK_FALLBACK_MIN_SCORE,
                       rerank_weight |-> Settings.SEMANTIC_SEARCH_RERANK_WEIGHT,
                       query |-> normalized_query,
                       cuisine_boost |-> Settings.SEMANTIC_SEARCH_RERANK_CUISINE_BOOST,
                       family_boost |-> Settings.SEMANTIC_SEARCH_RERANK_FAMILY_BOOST]))
        ELSE HttpOk(normalized_query, Take(matches, req.limit))

InitSearchVars ==
    /\ epIn \in SearchRequests
    /\ epOut = [done |-> FALSE, response |-> HttpError(0)]

\* GET /recipes/search/semantic with the request drawn
SemanticSearchCall ==
    /\ ~epOut.done
    /\ epOut' = [done |-> TRUE, response |-> SemanticSearchRecipes(epIn)]
    /\ UNCHANGED epIn

\* ------------------------------------------------------------------ normalization inputs
\* the characters of the raw queries examined: the two kinds of whitespace the
\* model knows, both wrapping quotes and a letter
QueryChars == {" ", "\t", "\"", "'", "a"}
\* the longest raw query examined
MaxQueryLen == 5
RawQueryStrings == ListsUpTo(QueryChars, MaxQueryLen)

InitNormVars ==
    /\ nqIn \in RawQueryStrings
    /\ nqOut = [done |-> FALSE, normalized |-> <<>>]

\* normalize_search_query(raw_query) for the raw query drawn
NormalizeCall ==
    /\ ~nqOut.done
    /\ nqOut' = [done |-> TRUE, normalized |-> normalize_search_query(nqIn)]
    /\ UNCHANGED nqIn

\* ------------------------------------------------------------------ LLM calls
\* the separator hash_cache_key joins the parts with ("\x1f")
UnitSeparator == "\\x1f"
\* hash_cache_key: the parts (None as "") joined by the separator; sha256 of the
\* joined text is taken to be collision-free, so the joined text is the key
RECURSIVE JoinParts(_)
JoinParts(parts) ==
    IF parts = <<>> THEN <<>>
    ELSE IF Len(parts) = 1 THEN Head(parts)
    ELSE Head(parts) \o <<UnitSeparator>> \o JoinParts(Tail(parts))
hash_cache_key(parts) == JoinParts(parts)

\* _get_chat_model_name() as configured, and the prompts of the calls examined
ChatModelName == <<"m">>
SystemPrompt == <<"s">>
UserPrompts == {<<"u">>, <<"v">>}

\* the most text-generation calls that wait on the provider at once
MaxCalls == 2
\* the most structured calls for one prompt that wait on the provider at once
MaxStructuredCalls == 1
\* LLM_MAX_RETRIES
MaxRetries == 3
\* the rate-limit errors the provider answers before its final answer
RateLimitedAttempts == {0, 1}
\* _with_retries(fn): the final answer of the provider and the number of times
\* fn was called; a rate-limit error is retried at most MaxRetries times
WithRetries(rate_limited, final) ==
    IF rate_limited > MaxRetries
    THEN [answer |-> [kind |-> "raise", content |-> <<>>], calls |-> MaxRetries + 1]
    ELSE [answer |-> final, calls |-> rate_limited + 1]

\* the payloads a judgment can carry: two that the schema accepts and one that
\* it rejects
ValidPayloads == {"duplicate", "distinct"}
Payloads == ValidPayloads \cup {"malformed"}
\* what the chat provider can do in a structured call: raise, answer text that
\* is not JSON, or answer the JSON text of a payload
StructuredAnswers ==
    {[kind |-> "raise", content |-> <<>>], [kind |-> "text", content |-> <<>>]}
        \cup {[kind |-> "json", content |-> <<p>>] : p \in Payloads}
\* json.loads(content)
JsonLoads(answer) ==
    IF answer.kind = "json" THEN [ok |-> TRUE, data |-> answer.content[1]]
    ELSE [ok |-> FALSE, data |-> Absent]
\* model_class.model_validate(data) succeeds
ModelValidates(payload) == payload \in ValidPayloads

\* the clock readings a cache call can hold when it gets the lock at time t,
\* having started at time since or later: get and set read time.monotonic()
\* before they take the lock, and the clock moves on while they wait for it
Readings(since, t) == since..t

\* the cache key of a structured call
StructuredKey(user_prompt) ==
    hash_cache_key(<<<<"llm_structured">>, ChatModelName, SystemPrompt, user_prompt,
                     <<"response_schema">>, <<"module">>, <<"name">>, <<"schema">>>>)
StructuredKeys == {StructuredKey(u) : u \in UserPrompts}
\* the user prompts of the structured calls followed step by step; of the calls
\* for the other prompt only what they do to the cache is followed
StructuredPrompts == {<<"u">>}
CalledStructuredKeys == {StructuredKey(u) : u \in StructuredPrompts}

\* a cached payload checked without the try/except around it
ValidateCachedUnguarded(cached) ==
    IF ModelValidates(cached) THEN "return" ELSE "raise"
\* what the call does with a cached payload: return it when
\* model_validate(cached) succeeds, evict it when model_validate raises
ValidateCached(cached) ==
    IF ModelValidates(cached) THEN "return" ELSE "evict"

\* a structured call that is waiting, between its cache lookup and its return:
\* the payload the lookup found (None on a miss), whether the call has deleted
\* the entry since, and the time at which it last held the cache lock
StructCall(user_prompt, cached, deleted, at) ==
    [user_prompt |-> user_prompt, cached |-> cached, deleted |-> deleted, at |-> at]

\* make_llm_call_structured_output_generic up to the provider call: the lookup
\* llm_structured_cache.get(cache_key), which compares with its clock reading
\* read and holds the cache lock at time t, and model_validate(cached). The
\* call returns here on a valid cached payload and goes on otherwise.
StructuredLookup(d, user_prompt, read, t) ==
    LET cache_key == StructuredKey(user_prompt)
        cached == GetRet(d, cache_key, read)
        looked == GetData(d, cache_key, read)
        step == IF cached = Absent THEN "miss" ELSE ValidateCached(cached)
        base == [step |-> "get", user_prompt |-> user_prompt, key |-> cache_key,
                 cached |-> cached, stamp |-> t, at |-> t, rate_limited |-> 0,
                 final |-> [kind |-> "raise", content |-> <<>>],
                 deleted |-> FALSE, provider_calls |-> 0]
    IN  IF step = "return"
        THEN [data |-> looked, waits |-> FALSE,
              op |-> base @@ [done |-> TRUE, ret |-> <<cached>>, err |-> <<>>]]
        ELSE IF step = "raise"
        THEN [data |-> looked, waits |-> FALSE,
              op |-> base @@ [done |-> TRUE, ret |-> <<>>,
                              err |-> <<"LLM API call failed">>]]
        ELSE [data |-> looked, waits |-> TRUE,
              op |-> base @@ [done |-> FALSE, ret |-> <<>>, err |-> <<>>]]

\* llm_structured_cache.delete(cache_key) after the cached payload failed
\* validation: a second taking of the cache lock
StructuredEvict(d, call) ==
    [data |-> DeleteData(d, StructuredKey(call.user_prompt)),
     op |-> [step |-> "delete", done |-> FALSE, user_prompt |-> call.user_prompt,
             key |-> StructuredKey(call.user_prompt), cached |-> call.cached,
             stamp |-> now, at |-> now, rate_limited |-> 0,
             final |-> [kind |-> "raise", content |-> <<>>],
             ret |-> <<>>, err |-> <<>>, deleted |-> TRUE, provider_calls |-> 0]]

\* make_llm_call_structured_output_generic from the provider call on: the
\* provider's answer, json.loads, model_validate and, for a valid answer,
\* llm_structured_cache.set, which builds the entry from its clock reading read
\* (expires_at = read + ttl, and _prune with the same reading) and writes it
\* under the cache lock at time t
StructuredProvider(d, call, rate_limited, final, read, t) ==
    LET cache_key == StructuredKey(call.user_prompt)
        tried == WithRetries(rate_limited, final)
        parsed == JsonLoads(tried.answer)
        base == [step |-> "set", done |-> TRUE, user_prompt |-> call.user_prompt,
                 key |-> cache_key, cached |-> call.cached, at |-> t,
                 rate_limited |-> rate_limited, final |-> final,
                 deleted |-> call.deleted, provider_calls |-> tried.calls]
    IN  IF tried.answer.kind = "raise"
        THEN [data |-> d,
              op |-> base @@ [ret |-> <<>>, err |-> <<"LLM API call failed">>,
                              stamp |-> t]]
        ELSE IF ~parsed.ok
        THEN [data |-> d,
              op |-> base @@ [ret |-> <<>>, err |-> <<"Failed to parse JSON response">>,
                              stamp |-> t]]
        ELSE IF ~ModelValidates(parsed.data)
        THEN [data |-> d,
              op |-> base @@ [ret |-> <<>>,
                              err |-> <<"Failed to validate response data">>,
                              stamp |-> t]]
        ELSE [data |-> SetData(d, cache_key, parsed.data, <<>>, read),
              op |-> base @@ [ret |-> <<parsed.data>>, err |-> <<>>,
                              stamp |-> read]]

NoStructuredCall ==
    [step |-> "none", done |-> FALSE,
     user_prompt |-> <<>>, key |-> <<>>, cached |-> Absent, stamp |-> 0, at |-> 0,
     rate_limited |-> 0, final |-> [kind |-> "raise", content |-> <<>>],
     ret |-> <<>>, err |-> <<>>,
     deleted |-> FALSE, provider_calls |-> 0]

InitStructVars ==
    /\ structured_cache = <<>>
    /\ structOp = NoStructuredCall
    /\ structCalls = EmptyBag

\* a structured call for a user prompt starts: it looks its key up and either
\* returns the cached judgment or goes on to wait, the lock released
BeginStructuredCall(user_prompt, read, t) ==
    LET r == StructuredLookup(structured_cache, user_prompt, read, t)
    IN  /\ r.waits => BagCardinality(structCalls) < MaxStructuredCalls
        /\ structured_cache' = r.data
        /\ structCalls' =
              IF r.waits
              THEN structCalls
                     (+) SetToBag({StructCall(user_prompt, r.op.cached, FALSE, t)})
              ELSE structCalls
        /\ structOp' = r.op
        /\ now' = t

\* a waiting call whose cached payload failed validation deletes the entry
EvictCached(call) ==
    LET r == StructuredEvict(structured_cache, call)
    IN  /\ BagIn(call, structCalls)
        /\ call.cached # Absent
        /\ ~call.deleted
        /\ structured_cache' = r.data
        /\ structCalls' = (structCalls (-) SetToBag({call}))
                              (+) SetToBag({[call EXCEPT !.deleted = TRUE, !.at = now]})
        /\ structOp' = r.op
        /\ UNCHANGED now

\* the provider answers a waiting call, which stores a valid answer and returns
FinishStructuredCall(call, rate_limited, final, read, t) ==
    LET r == StructuredProvider(structured_cache, call, rate_limited, final, read, t)
    IN  /\ BagIn(call, structCalls)
        /\ call.cached = Absent \/ call.deleted
        /\ structured_cache' = r.data
        /\ structCalls' = structCalls (-) SetToBag({call})
        /\ structOp' = r.op
        /\ now' = t

\* the payloads written under key k besides those the calls followed write:
\* under their key one the schema rejects, under the key of another prompt the
\* judgment of a call for that prompt (no call followed reads it)
StoredPayloads(k) ==
    IF k \in CalledStructuredKeys THEN Payloads \ ValidPayloads ELSE {"duplicate"}
\* llm_structured_cache is a module-level object: set(key, payload) by any code
\* that holds it, a call for another prompt among them; the entry is built from
\* the clock reading read and written under the lock at time t
StorePayload(k, payload, read, t) ==
    /\ structured_cache' = SetData(structured_cache, k, payload, <<>>, read)
    /\ structOp' = NoStructuredCall
    /\ now' = t
    /\ UNCHANGED structCalls

\* the lookup llm_structured_cache.get(k) of a call for another prompt: it pops
\* an entry that is expired at its clock reading and moves any other to the end
LookupPayload(k, read, t) ==
    /\ structured_cache' = GetData(structured_cache, k, read)
    /\ structOp' = NoStructuredCall
    /\ now' = t
    /\ UNCHANGED structCalls

\* llm_structured_cache.delete(k) of a call for another prompt
DeletePayload(k) ==
    /\ structured_cache' = DeleteData(structured_cache, k)
    /\ structOp' = NoStructuredCall
    /\ UNCHANGED <<now, structCalls>>

\* ------------------------------------------------------------------ text generation
\* the cache key of a text-generation call
TextKey(user_prompt) ==
    hash_cache_key(<<<<"llm_text">>, ChatModelName, SystemPrompt, user_prompt>>)
TextKeys == {TextKey(u) : u \in UserPrompts}
\* the user prompts of the text-generation calls followed step by step; of the
\* calls for the other prompt only what they do to the cache is followed
TextPrompts == {<<"u">>}
CalledTextKeys == {TextKey(u) : u \in TextPrompts}
\* what the chat provider can do in a text-generation call: raise, or answer a
\* message whose content is None (<<>>), the empty string or a text
TextAnswers ==
    {[kind |-> "raise", content |-> <<>>]}
        \cup {[kind |-> "message", content |-> c] : c \in {<<>>, <<"">>, <<"text">>}}

\* the rate-limit errors the provider answers before its final answer in the
\* text-generation calls followed: none, as in the test of the cache
TextRateLimitedAttempts == {0}

\* a call that takes an empty cached string for a miss
CacheHitIfTruthy(cached) == cached # Absent /\ cached # ""
\* cached is not None
CacheHit(cached) == cached # Absent

\* a text-generation call that is waiting, between its cache lookup and its
\* return: its prompt and the time at which its lookup held the lock
TextCall(user_prompt, at) == [user_prompt |-> user_prompt, at |-> at]

\* make_llm_call_text_generation up to the provider call: the lookup
\* llm_text_cache.get(cache_key), which compares with its clock reading read
\* and holds the cache lock at time t. The call returns here when cached is not
\* None and goes on otherwise.
TextLookup(d, user_prompt, read, t) ==
    LET cache_key == TextKey(user_prompt)
        cached == GetRet(d, cache_key, read)
        hit == CacheHit(cached)
    IN  [data |-> GetData(d, cache_key, read), waits |-> ~hit,
         op |-> [step |-> "get", done |-> hit, key |-> cache_key, at |-> t,
                 ret |-> IF hit THEN <<cached>> ELSE <<>>, raised |-> FALSE,
                 provider_calls |-> 0, stores |-> FALSE]]

\* make_llm_call_text_generation from the provider call on: the provider's
\* answer and, when its content is not None, llm_text_cache.set, which builds
\* the entry from its clock reading read (expires_at = read + ttl, and _prune
\* with the same reading) and writes it under the cache lock at time t
TextProvider(d, user_prompt, rate_limited, final, read, t) ==
    LET cache_key == TextKey(user_prompt)
        tried == WithRetries(rate_limited, final)
        base == [step |-> "set", done |-> TRUE, key |-> cache_key, at |-> t,
                 provider_calls |-> tried.calls]
    IN  IF tried.answer.kind = "raise"
        THEN [data |-> d,
              op |-> base @@ [ret |-> <<>>, raised |-> TRUE, stores |-> FALSE]]
        ELSE IF tried.answer.content = <<>>
        THEN [data |-> d,
              op |-> base @@ [ret |-> <<>>, raised |-> FALSE, stores |-> FALSE]]
        ELSE [data |-> SetData(d, cache_key, tried.answer.content[1], <<>>, read),
              op |-> base @@ [ret |-> tried.answer.content, raised |-> FALSE,
                              stores |-> SetStores(<<>>)]]

NoTextCall ==
    [step |-> "none", done |-> FALSE, key |-> <<>>, at |-> 0,
     ret |-> <<>>, raised |-> FALSE, provider_calls |-> 0, stores |-> FALSE,
     known |-> {}]

InitTextVars ==
    /\ text_cache = <<>>
    /\ textOp = NoTextCall
    /\ textStored = [k \in CalledTextKeys |-> {}]
    /\ textCalls = EmptyBag

\* the history of the text cache at time t: content whose time is up has expired
TextAtTime(st, t) ==
    [j \in DOMAIN st |-> {e \in st[j] : t < e.until}]
\* a content a call wrote under a key, the time its entry expires, and whether
\* it is the content written last under the key
Written(content, until, current) ==
    [value |-> content, until |-> until, current |-> current]
\* the history of a key after a call wrote content under it: what was written
\* before is overwritten
TextWith(writes, content, until) ==
    ({Written(e.value, e.until, FALSE) : e \in writes}
        \ {Written(content, until, FALSE)}) \cup {Written(content, until, TRUE)}

\* a text-generation call for a user prompt starts: it looks its key up and
\* either returns the cached content or goes on to wait, the lock released
BeginTextCall(user_prompt, read, t) ==
    LET r == TextLookup(text_cache, user_prompt, read, t)
    IN  /\ r.waits => BagCardinality(textCalls) < MaxCalls
        /\ text_cache' = r.data
        /\ textCalls' = IF r.waits
                        THEN textCalls (+) SetToBag({TextCall(user_prompt, t)})
                        ELSE textCalls
        /\ textOp' = r.op @@ [known |-> TextAtTime(textStored, t)[r.op.key]]
        /\ textStored' = TextAtTime(textStored, t)
        /\ now' = t

\* the provider answers a waiting call, which stores content that is not None
\* and returns (or raises)
FinishTextCall(call, rate_limited, final, read, t) ==
    LET r == TextProvider(text_cache, call.user_prompt, rate_limited, final, read, t)
    IN  /\ BagIn(call, textCalls)
        /\ text_cache' = r.data
        /\ textCalls' = textCalls (-) SetToBag({call})
        /\ textOp' = r.op @@ [known |-> {}]
        /\ textStored' =
              IF r.op.stores
              THEN TextAtTime(
                     [j \in CalledTextKeys |->
                        IF j = r.op.key
                        THEN TextWith(textStored[j], r.op.ret[1], read + ttl_seconds)
                        ELSE IF j \in Evicted(text_cache, r.data, t) THEN {}
                        ELSE textStored[j]], t)
              ELSE TextAtTime(textStored, t)
        /\ now' = t

\* llm_text_cache.set(k, content) of a call for another prompt, which can push
\* the entries of the calls followed out: the entry is built from the clock
\* reading read and written under the lock at time t
StoreText(k, content, read, t) ==
    /\ text_cache' = SetData(text_cache, k, content, <<>>, read)
    /\ textStored' = TextAtTime([j \in CalledTextKeys |->
                                   IF j \in Evicted(text_cache, text_cache', t) THEN {}
                                   ELSE textStored[j]], t)
    /\ textOp' = NoTextCall
    /\ now' = t
    /\ UNCHANGED textCalls

\* the lookup llm_text_cache.get(k) of a call for another prompt: it pops an
\* entry that is expired at its clock reading and moves any other to the end
LookupText(k, read, t) ==
    /\ text_cache' = GetData(text_cache, k, read)
    /\ textStored' = TextAtTime(textStored, t)
    /\ textOp' = NoTextCall
    /\ now' = t
    /\ UNCHANGED textCalls

\* ------------------------------------------------------------------ request protection middleware
\* the largest requests_per_minute examined
MaxPerMinute == 2
\* self._window_seconds = 60.0
WindowSeconds == 60
\* time.monotonic() at clock tick t, in seconds: one tick is one minute
Monotonic(t) == t * 60
\* API_AUTH_TOKEN: empty when authentication is off
ApiTokens == {"", "secret"}
\* request.url.path, cut at its slashes
HealthPath == <<"/", "health">>
\* _public_paths: the paths main.py passes as exempt_paths
PublicPaths == {<<"/">>, HealthPath}
\* a request: its peer address, its X-Forwarded-For, X-API-Token and Authorization
\* headers and its path
Request(client, forwarded_for, x_api_token, authorization, path) ==
    [client |-> client, forwarded_for |-> forwarded_for, x_api_token |-> x_api_token,
     authorization |-> authorization, path |-> path]
\* the requests examined: from one address without credentials, with and
\* without an X-Forwarded-For header, with the token in either header and to
\* the health path; and without a peer address
Requests ==
    { Request(<<"10.0.0.1">>, <<>>, <<>>, <<>>, <<"/", "ok">>),
      Request(<<"10.0.0.1">>, <<"1.1.1.1">>, <<>>, <<>>, <<"/", "ok">>),
      Request(<<"10.0.0.1">>, <<>>, <<"secret">>, <<>>, <<"/", "ok">>),
      Request(<<"10.0.0.1">>, <<>>, <<>>, <<"Bearer ", "secret">>, <<"/", "ok">>),
      Request(<<"10.0.0.1">>, <<>>, <<>>, <<>>, HealthPath),
      Request(<<>>, <<"1.1.1.1">>, <<>>, <<>>, <<"/", "ok">>) }

\* _get_client_ip: request.client.host, or "unknown" without a client
GetClientIp(request) ==
    IF request.client # <<>> THEN request.client[1] ELSE "unknown"
\* the keys a bucket can have
ClientIps == {"unknown", "10.0.0.1", "1.1.1.1"}

\* normalized.rstrip("/")
RECURSIVE RStripSlash(_)
RStripSlash(path) ==
    IF path # <<>> /\ path[Len(path)] = "/"
    THEN RStripSlash(SubSeq(path, 1, Len(path) - 1))
    ELSE path
\* _normalize_path: "/" for an empty path, a leading slash, no trailing slash
NormalizePath(path) ==
    LET nonEmpty == IF path = <<>> THEN <<"/">> ELSE path
        rooted == IF nonEmpty[1] # "/" THEN <<"/">> \o nonEmpty ELSE nonEmpty
    IN IF rooted # <<"/">> THEN RStripSlash(rooted) ELSE rooted

\* AuthTokenMiddleware.dispatch: TRUE when the request goes on to call_next,
\* FALSE when it is answered 401
AuthDispatch(token, exempt_paths, request) ==
    LET bearer == IF request.authorization # <<>> /\ request.authorization[1] = "Bearer "
                  THEN <<request.authorization[2]>> ELSE <<"">>
    IN \/ token = ""
       \/ NormalizePath(request.path) \in {NormalizePath(p) : p \in exempt_paths}
       \/ ~(request.x_api_token # <<token>> /\ bearer # <<token>>)

\* self._limit = max(1, requests_per_minute)
Limit(requests_per_minute) ==
    IF requests_per_minute < 1 THEN 1 ELSE requests_per_minute
\* while bucket and now - bucket[0] > self._window_seconds: bucket.popleft()
RECURSIVE PopExpired(_, _)
PopExpired(bucket, now_s) ==
    IF bucket # <<>> /\ now_s - bucket[1] > WindowSeconds
    THEN PopExpired(Tail(bucket), now_s)
    ELSE bucket
\* RateLimitMiddleware.dispatch at monotonic time now_s: the buckets afterwards
\* and whether the request goes on to call_next (otherwise 429 with Retry-After)
RateLimitDispatch(buckets, limit, request, now_s) ==
    LET client_ip == GetClientIp(request)
        bucket == PopExpired(buckets[client_ip], now_s)
    IN IF Len(bucket) >= limit
       THEN [next |-> FALSE,
             retry_after |-> IF WindowSeconds - (now_s - bucket[1]) < 1 THEN 1
                             ELSE WindowSeconds - (now_s - bucket[1]),
             buckets |-> [buckets EXCEPT ![client_ip] = bucket]]
       ELSE [next |-> TRUE, retry_after |-> 0,
             buckets |-> [buckets EXCEPT ![client_ip] = Append(bucket, now_s)]]

\* RateLimitMiddleware.__init__(app, requests_per_minute) takes no other
\* argument: built with the exempt_paths keyword, as create_application builds
\* it, the call raises TypeError and no middleware stack exists
Constructed(cfg) == ~cfg.exempt_paths_given

\* the most requests in their route at one time
MaxInFlight == 1
NoRequest ==
    [client |-> <<>>, forwarded_for |-> <<>>, x_api_token |-> <<>>,
     authorization |-> <<>>, path |-> <<"/", "ok">>]
\* the application as configured, before its first request
InitLimitVars ==
    /\ rlCfg \in [requests_per_minute : {0, 1, MaxPerMinute}, token : ApiTokens,
                  exempt_paths_given : BOOLEAN]
    /\ rlBuckets = [ip \in ClientIps |-> <<>>]
    /\ rlOp = [done |-> FALSE, step |-> "none", request |-> NoRequest, at |-> 0,
               status |-> 0, raised |-> "None", retry_after |-> 0,
               pre |-> [ip \in ClientIps |-> <<>>]]
    /\ rlPending = EmptyBag

\* a request arrives at clock tick t. Without a stack it ends in the TypeError
\* of create_application. RateLimitMiddleware.dispatch up to its await: under
\* the lock the bucket is pruned and the request is either answered 429 or
\* counted; a counted request goes on to call_next and is not answered yet
\* (status 0)
Dispatch(request, t) ==
    /\ now' = t
    /\ IF ~Constructed(rlCfg)
       THEN /\ rlOp' = [done |-> TRUE, step |-> "dispatch", request |-> request,
                        at |-> Monotonic(t), status |-> 500, raised |-> "TypeError",
                        retry_after |-> 0, pre |-> rlBuckets]
            /\ UNCHANGED <<rlBuckets, rlPending>>
       ELSE LET limited == RateLimitDispatch(rlBuckets, Limit(rlCfg.requests_per_minute),
                                             request, Monotonic(t))
            IN /\ limited.next => BagCardinality(rlPending) < MaxInFlight
               /\ rlBuckets' = limited.buckets
               /\ rlPending' = IF limited.next THEN rlPending (+) SetToBag({request})
                               ELSE rlPending
               /\ rlOp' = [done |-> TRUE, step |-> "dispatch", request |-> request,
                           at |-> Monotonic(t),
                           status |-> IF limited.next THEN 0 ELSE 429,
                           raised |-> "None", retry_after |-> limited.retry_after,
                           pre |-> rlBuckets]
    /\ UNCHANGED <<rlCfg, ttl_seconds, max_items, data, cacheOp, stored, touch>>

\* await call_next(request) returns for a request in its route. The stack of
\* create_application has the rate limiter outermost, then the token check,
\* then the route (RequestSizeLimitMiddleware passes a request without a body,
\* RequestTimeoutMiddleware a fast route): the token check answered 401, or the
\* route answered 200; no bucket changes
CallNext(request) ==
    /\ BagIn(request, rlPending)
    /\ rlPending' = rlPending (-) SetToBag({request})
    /\ rlOp' = [done |-> TRUE, step |-> "call_next", request |-> request,
                at |-> Monotonic(now),
                status |-> IF ~AuthDispatch(rlCfg.token, PublicPaths, request) THEN 401
                           ELSE 200,
                raised |-> "None", retry_after |-> 0, pre |-> rlBuckets]
    /\ UNCHANGED <<rlCfg, rlBuckets, cacheVars>>

\* ------------------------------------------------------------------ TTLCache shared by threads
Threads == {"t1", "t2"}
\* the keys the threads use
ThreadKeys == {"k1", "k2"}
\* a thread outside any call
IdleThread ==
    [pc |-> "idle", op |-> "none", key |-> "k1", value |-> Absent, ttlArg |-> <<>>,
     clock |-> 0, hit |-> <<>>, read_at |-> 0]
\* the thread has returned from its call: hit is the entry a get returned, and
\* read_at the time at which it held the lock
Returns(op, k, hit, read_at) ==
    [IdleThread EXCEPT !.pc = "done", !.op = op, !.key = k, !.hit = hit,
                       !.read_at = read_at]

\* get up to the lock: return None when disabled, else now = time.monotonic()
CallGet(th, k) ==
    /\ threads[th].pc # "waiting"
    /\ threads' = [threads EXCEPT ![th] =
                      IF ~Enabled THEN Returns("get", k, <<>>, now)
                      ELSE [IdleThread EXCEPT !.pc = "waiting", !.op = "get", !.key = k,
                                              !.clock = now]]
    /\ UNCHANGED cacheVars

\* set up to the lock: return when disabled or ttl <= 0, else read the clock
\* and build the entry
CallSet(th, k, v, ttlArg) ==
    /\ threads[th].pc # "waiting"
    /\ threads' = [threads EXCEPT ![th] =
                      IF ~SetStores(ttlArg) THEN Returns("set", k, <<>>, now)
                      ELSE [IdleThread EXCEPT !.pc = "waiting", !.op = "set", !.key = k,
                                              !.value = v, !.ttlArg = ttlArg,
                                              !.clock = now]]
    /\ UNCHANGED cacheVars

\* delete up to the lock: return when disabled
CallDelete(th, k) ==
    /\ threads[th].pc # "waiting"
    /\ threads' = [threads EXCEPT ![th] =
                      IF ~Enabled THEN Returns("delete", k, <<>>, now)
                      ELSE [IdleThread EXCEPT !.pc = "waiting", !.op = "delete",
                                              !.key = k]]
    /\ UNCHANGED cacheVars

\* with self._lock: the thread takes the lock, runs the body of its call with
\* the clock reading it took before, and returns
Locked(th) ==
    LET c == threads[th]
    IN /\ c.pc = "waiting"
       /\ data' = CASE c.op = "get" -> GetData(data, c.key, c.clock)
                    [] c.op = "set" -> SetData(data, c.key, c.value, c.ttlArg, c.clock)
                    [] OTHER -> DeleteData(data, c.key)
       /\ threads' = [threads EXCEPT ![th] =
                         Returns(c.op, c.key,
                                 IF c.op = "get" /\ GetRet(data, c.key, c.clock) # Absent
                                 THEN <<EntryOf(data, c.key)>> ELSE <<>>,
                                 now)]
       /\ UNCHANGED <<ttl_seconds, max_items, now, cacheOp, stored, touch>>

\* the monotonic clock advances while threads run or wait for the lock
Tick ==
    /\ now < MaxTime
    /\ now' = now + 1
    /\ UNCHANGED <<ttl_seconds, max_items, data, cacheOp, stored, touch, threads>>

\* ------------------------------------------------------------------ concurrent process_raw_recipe
\* two calls of process_raw_recipe running at the same time over one store
Submissions == {"s1", "s2"}
\* a call not made yet
NotSubmitted ==
    [pc |-> "idle", content |-> "c1", enforce |-> FALSE, dup |-> NotChecked,
     res |-> Failure(None), emb |-> "ok", ins |-> "ok"]

\* steps 1 and 2 of a call: cleanup and extraction; the call goes on to step 3
\* when deduplication is enforced and to step 4 otherwise
StartSubmission(s, c, enforce) ==
    /\ subs[s].pc = "idle"
    /\ \E cleanup \in {"ok", "empty"}, extract \in {"ok", "error"} :
         subs' = [subs EXCEPT ![s] =
                    IF cleanup # "ok"
                    THEN [NotSubmitted EXCEPT !.pc = "done", !.content = c,
                             !.enforce = enforce,
                             !.res = Failure("Failed to cleanup input text")]
                    ELSE IF extract # "ok"
                    THEN [NotSubmitted EXCEPT !.pc = "done", !.content = c,
                             !.enforce = enforce,
                             !.res = Failure("Recipe extraction failed")]
                    ELSE [NotSubmitted EXCEPT !.pc = IF enforce THEN "check" ELSE "insert",
                             !.content = c, !.enforce = enforce]]
    /\ UNCHANGED store

\* step 3 of a call: find_duplicate against the store as it is now, and the
\* unpacking of its result; the call ends here unless it goes on to step 4
DedupeCheck(s) ==
    /\ subs[s].pc = "check"
    /\ \E row \in NearestIn(store, subs[s].content) : \E env \in DedupeEnvs({row}) :
         LET dd == FindDuplicate(env)
             res == AfterExtraction(subs[s].content, TRUE, dd, "ok", "ok")
         IN subs' = [subs EXCEPT ![s].dup = Checked(dd),
                                 ![s].pc = IF res.created THEN "insert" ELSE "done",
                                 ![s].res = IF res.created THEN @ ELSE res]
    /\ UNCHANGED store

\* steps 4 and 5 of a call: the embedding and create_recipe_from_model, one
\* transaction of its own
EmbedAndInsert(s) ==
    /\ subs[s].pc = "insert"
    /\ \E emb \in {"ok", "raise"}, ins \in {"ok", "raise"} :
         LET res == AfterExtraction(subs[s].content, FALSE, subs[s].dup, emb, ins)
         IN /\ subs' = [subs EXCEPT ![s].pc = "done", ![s].res = res,
                                    ![s].emb = emb, ![s].ins = ins]
            /\ store' = IF res.created
                        THEN Append(store, Record(res.recipe_id, subs[s].content,
                                                  {subs[s].content}))
                        ELSE store

\* ------------------------------------------------------------------ specifications
IdleCache ==
    /\ ttl_seconds = 0
    /\ max_items = 0
    /\ data = <<>>
    /\ now = 0
    /\ cacheOp = [op |-> "none", key |-> "k1", ret |-> Absent, stores |-> FALSE,
                  preKeys |-> {}, allLive |-> TRUE, lru |-> "k1"]
    /\ stored = [k \in Keys |-> NoEntry]
    /\ touch = <<>>

IdleDedupe ==
    /\ strict_duplicate_threshold = DefaultStrict
    /\ distance_threshold = DefaultDistance
    /\ ddEnv = [embed |-> "ok", nearestFails |-> FALSE, nearest |-> <<>>,
                full |-> "none", judge |-> [decision |-> None, error |-> TRUE]]
    /\ ddRes = [raised |-> FALSE, ret |-> <<>>, calls |-> <<>>]

IdlePipe == InitPipeVars /\ on_delete = "cascade"

IdleRerank ==
    /\ rrIn = [matches |-> <<>>, ranked_items |-> <<>>, limit |-> 1,
               min_rerank_score |-> DefaultMinRerankScore,
               fallback_min_rerank_score |-> <<DefaultFallbackMinRerankScore>>,
               rerank_weight |-> DefaultRerankWeight, query |-> NoQuery,
               cuisine_boost |-> 0, family_boost |-> 0]
    /\ rrOut = [done |-> TRUE, rows |-> <<>>, passes |-> <<>>]

IdleNormalize ==
    /\ nqIn = <<>>
    /\ nqOut = [done |-> TRUE, normalized |-> <<>>]

IdleStructured == InitStructVars

IdleText == InitTextVars

IdleEmbed == embedLog = <<>>

IdleThreads == threads = [th \in Threads |-> IdleThread]

IdleRace == subs = [s \in Submissions |-> NotSubmitted]

IdleLimit ==
    /\ rlCfg = [requests_per_minute |-> 1, token |-> "", exempt_paths_given |-> FALSE]
    /\ rlBuckets = [ip \in ClientIps |-> <<>>]
    /\ rlOp = [done |-> FALSE, step |-> "none", request |-> NoRequest, at |-> 0,
               status |-> 0, raised |-> "None", retry_after |-> 0,
               pre |-> [ip \in ClientIps |-> <<>>]]
    /\ rlPending = EmptyBag

IdleSearch ==
    /\ epIn = [query |-> <<>>, limit |-> 1, rows |-> <<>>, rerank_enabled |-> FALSE,
               embed |-> "ok", search |-> "ok", reranker |-> "null", ranked |-> <<>>]
    /\ epOut = [done |-> TRUE, response |-> HttpError(422)]

\* the cache alone
InitCache == InitCacheVars /\ IdleDedupe /\ IdlePipe /\ IdleRerank /\ IdleSearch /\ IdleNormalize /\ IdleStructured /\ IdleText /\ IdleEmbed /\ IdleLimit /\ IdleThreads /\ IdleRace
NextCache ==
    /\ \/ \E k \in Keys, t \in Clock : Get(k, t)
       \/ \E k \in Keys, v \in Values, ttlArg \in TtlArgs, t \in Clock :
            Set(k, v, ttlArg, t)
       \/ \E k \in Keys : Delete(k)
    /\ UNCHANGED <<dedupeVars, pipeVars, rerankVars, searchVars, normVars, structVars, textVars, embedVars, limitVars, threadVars, raceVars>>
SpecCache == InitCache /\ [][NextCache]_vars

\* find_duplicate alone, against any answers of its collaborators
InitDedupe == IdleCache /\ InitDedupeVars /\ IdlePipe /\ IdleRerank /\ IdleSearch /\ IdleNormalize /\ IdleStructured /\ IdleText /\ IdleEmbed /\ IdleLimit /\ IdleThreads /\ IdleRace
NextDedupe ==
    /\ \E env \in DedupeEnvs({<<>>} \cup {<<r>> : r \in NearestRows}) :
            FindDuplicateCall(env)
    /\ UNCHANGED <<cacheVars, pipeVars, rerankVars, searchVars, normVars, structVars, textVars, embedVars, limitVars, threadVars, raceVars>>
SpecDedupe == InitDedupe /\ [][NextDedupe]_vars

\* the ingestion pipeline over a recipe store, with the real find_duplicate
InitPipe == IdleCache /\ InitDedupeVars /\ InitPipeVars /\ IdleRerank /\ IdleSearch /\ IdleNormalize /\ IdleStructured /\ IdleText /\ IdleEmbed /\ IdleLimit /\ IdleThreads /\ IdleRace
NextPipe ==
    /\ \/ \E c \in Contents, enforce \in BOOLEAN : ProcessRawRecipe(c, enforce)
       \/ /\ \/ \E c \in Contents : CreateRecipe(c)
             \/ \E id \in PresentIds(store), c \in Contents : CreateRecipeEmbedding(id, c)
             \/ \E id \in PresentIds(store), c \in Contents : UpdateRecipe(id, c)
             \/ \E id \in PresentIds(store) : DeleteRecipe(id)
          /\ NoPipeCall(pipeIn', pipeDup', pipeRes')
    /\ UNCHANGED on_delete
    /\ UNCHANGED <<cacheVars, dedupeVars, rerankVars, searchVars, normVars, structVars, textVars, embedVars, limitVars, threadVars, raceVars>>
SpecPipe == InitPipe /\ [][NextPipe]_vars

\* apply_rerank alone, over the calls drawn
InitRerank == IdleCache /\ IdleDedupe /\ IdlePipe /\ InitRerankVars /\ IdleSearch /\ IdleNormalize /\ IdleStructured /\ IdleText /\ IdleEmbed /\ IdleLimit /\ IdleThreads /\ IdleRace
NextRerank ==
    /\ ApplyRerankCall
    /\ UNCHANGED <<cacheVars, dedupeVars, pipeVars, searchVars, normVars, structVars, textVars, embedVars, limitVars, threadVars, raceVars>>
SpecRerank == InitRerank /\ [][NextRerank]_vars

\* the semantic search endpoint, over the requests drawn
InitSearch == IdleCache /\ IdleDedupe /\ IdlePipe /\ IdleRerank /\ InitSearchVars /\ IdleNormalize /\ IdleStructured /\ IdleText /\ IdleEmbed /\ IdleLimit /\ IdleThreads /\ IdleRace
NextSearch ==
    /\ SemanticSearchCall
    /\ UNCHANGED <<cacheVars, dedupeVars, pipeVars, rerankVars, normVars, structVars, textVars, embedVars, limitVars, threadVars, raceVars>>
SpecSearch == InitSearch /\ [][NextSearch]_vars

\* normalize_search_query alone, over the raw queries drawn
InitNormalize == IdleCache /\ IdleDedupe /\ IdlePipe /\ IdleRerank /\ IdleSearch /\ InitNormVars /\ IdleStructured /\ IdleText /\ IdleEmbed /\ IdleLimit /\ IdleThreads /\ IdleRace
NextNormalize ==
    /\ NormalizeCall
    /\ UNCHANGED <<cacheVars, dedupeVars, pipeVars, rerankVars, searchVars, structVars, textVars, embedVars, limitVars, threadVars, raceVars>>
SpecNormalize == InitNormalize /\ [][NextNormalize]_vars

\* structured calls over the structured cache
InitStructured ==
    /\ InitLlmCacheVars /\ IdleDedupe /\ IdlePipe /\ IdleRerank /\ IdleSearch
    /\ IdleNormalize /\ InitStructVars /\ IdleText /\ IdleEmbed /\ IdleLimit /\ IdleThreads /\ IdleRace
NextStructured ==
    /\ \/ \E u \in StructuredPrompts, t \in Clock :
             \E read \in Readings(0, t) : BeginStructuredCall(u, read, t)
       \/ \E call \in BagToSet(structCalls) : EvictCached(call)
       \/ \E call \in BagToSet(structCalls), n \in RateLimitedAttempts,
             a \in StructuredAnswers, t \in Clock :
             \E read \in Readings(call.at, t) : FinishStructuredCall(call, n, a, read, t)
       \/ \E k \in StructuredKeys, t \in Clock :
             \E p \in StoredPayloads(k), read \in Readings(0, t) : StorePayload(k, p, read, t)
       \/ \E k \in StructuredKeys \ CalledStructuredKeys, t \in Clock :
             \E read \in Readings(0, t) : LookupPayload(k, read, t)
       \/ \E k \in StructuredKeys \ CalledStructuredKeys : DeletePayload(k)
    /\ UNCHANGED <<ttl_seconds, max_items, data, cacheOp, stored, touch>>
    /\ UNCHANGED <<dedupeVars, pipeVars, rerankVars, searchVars, normVars, textVars, embedVars, limitVars, threadVars, raceVars>>
SpecStructured == InitStructured /\ [][NextStructured]_vars

\* text-generation calls over the text cache
InitText ==
    /\ InitLlmCacheVars /\ IdleDedupe /\ IdlePipe /\ IdleRerank /\ IdleSearch
    /\ IdleNormalize /\ IdleStructured /\ InitTextVars /\ IdleEmbed /\ IdleLimit /\ IdleThreads /\ IdleRace
NextText ==
    /\ \/ \E u \in TextPrompts, t \in Clock :
             \E read \in Readings(0, t) : BeginTextCall(u, read, t)
       \/ \E k \in TextKeys \ CalledTextKeys, t \in Clock :
             \E read \in Readings(0, t) : StoreText(k, "text", read, t)
       \/ \E k \in TextKeys \ CalledTextKeys, t \in Clock :
             \E read \in Readings(0, t) : LookupText(k, read, t)
       \/ \E call \in BagToSet(textCalls), n \in TextRateLimitedAttempts,
             a \in TextAnswers, t \in Clock :
             \E read \in Readings(call.at, t) : FinishTextCall(call, n, a, read, t)
    /\ UNCHANGED <<ttl_seconds, max_items, data, cacheOp, stored, touch>>
    /\ UNCHANGED <<dedupeVars, pipeVars, rerankVars, searchVars, normVars, structVars, embedVars, limitVars, threadVars, raceVars>>
SpecText == InitText /\ [][NextText]_vars

\* every producer of a result list: a call of apply_rerank or a request to the
\* semantic search endpoint
InitResults == InitRerank \/ InitSearch
NextResults == NextRerank \/ NextSearch
SpecResults == InitResults /\ [][NextResults]_vars

\* ------------------------------------------------------------------ claims: TTLCache
\* C1: on an enabled cache, after a set(k, v, ttl) with ttl > 0 at time t0 that was
\* not undone by a later set, delete or eviction of k, a get(k) at a time
\* t < t0 + ttl returns v, and a get(k) at a time t >= t0 + ttl returns absent and
\* leaves no entry for k in the map.
C1_GetHonoursTtl ==
    cacheOp.op = "get" =>
        LET s == stored[cacheOp.key]
        IN  /\ s.state = "live" => cacheOp.ret = s.value
            /\ s.state = "expired" =>
                    cacheOp.ret = Absent /\ ~HasKey(data, cacheOp.key)

\* a get found the entry of an expired set still in the map and removed it
C1_Witness ==
    /\ cacheOp.op = "get"
    /\ stored[cacheOp.key].state = "expired"
    /\ cacheOp.key \in cacheOp.preKeys
    /\ cacheOp.ret = Absent
    /\ ~HasKey(data, cacheOp.key)

\* a set of a new key that stores it, into a map of max_items unexpired entries
Overflows ==
    /\ cacheOp.op = "set"
    /\ cacheOp.stores
    /\ cacheOp.key \notin cacheOp.preKeys
    /\ Cardinality(cacheOp.preKeys) = max_items
    /\ cacheOp.allLive

\* C2: with a capacity max_items (not negative), after every completed set the
\* map holds at most max_items entries; a set of a new key into a map of
\* max_items unexpired entries evicts exactly one entry, the least recently
\* touched one (touched = set, or got successfully), and leaves exactly
\* max_items entries.
C2_CapacityLru ==
    (cacheOp.op = "set" /\ max_items >= 0) =>
        /\ Len(data) <= max_items
        /\ Overflows =>
              /\ cacheOp.preKeys \ KeysOf(data) = {cacheOp.lru}
              /\ KeysOf(data) = (cacheOp.preKeys \ {cacheOp.lru}) \cup {cacheOp.key}
              /\ Len(data) = max_items

\* a set of a third key into a full map of two entries evicted the least
\* recently touched key and kept the other
C2_Witness ==
    /\ Overflows
    /\ max_items >= 2
    /\ cacheOp.lru \notin KeysOf(data)
    /\ Len(data) = max_items
    /\ touch[Len(touch)] = cacheOp.key

\* ------------------------------------------------------------------ claims: find_duplicate
\* the last find_duplicate call got a nearest row with a distance from the store
HasNeighbour ==
    /\ ddEnv.embed = "ok"
    /\ ~ddEnv.nearestFails
    /\ ddEnv.nearest # <<>>
    /\ ddEnv.nearest[1].distance # <<>>
NearestDistance == ddEnv.nearest[1].distance[1]
NearestId == ddEnv.nearest[1].recipe_id
\* the ambiguous band: strict < d <= loose
InBand ==
    /\ HasNeighbour
    /\ strict_duplicate_threshold < NearestDistance
    /\ NearestDistance <= distance_threshold
ReportsDistinct ==
    /\ ~ddRes.raised
    /\ ddRes.ret[1] = FALSE
    /\ ddRes.ret[2] = None
ReportsDuplicateOf(id) ==
    /\ ~ddRes.raised
    /\ ddRes.ret[1] = TRUE
    /\ ddRes.ret[2] = id

\* C3: whenever the nearest stored embedding has distance d <= strict threshold,
\* find_duplicate reports (true, nearest recipe id) and never invokes the
\* judgment provider.
C3_StrictZone ==
    (HasNeighbour /\ NearestDistance <= strict_duplicate_threshold) =>
        /\ ReportsDuplicateOf(NearestId)
        /\ ~Called(ddRes, "judge")

\* the nearest neighbour sits exactly on the strict threshold and is reported
C3_Witness ==
    /\ HasNeighbour
    /\ NearestDistance = strict_duplicate_threshold
    /\ ReportsDuplicateOf(NearestId)
    /\ Called(ddRes, "nearest")

\* C4 (as claimed): whenever the vector store returns no neighbour, a neighbour
\* with a null distance, or a distance d > loose threshold, find_duplicate
\* reports (false, null) and neither fetches the existing recipe nor invokes
\* the judgment provider.
C4_AutoDistinctZone ==
    ( /\ ddEnv.embed = "ok"
      /\ ~ddEnv.nearestFails
      /\ Called(ddRes, "nearest")
      /\ \/ ddEnv.nearest = <<>>
         \/ ddEnv.nearest[1].distance = <<>>
         \/ NearestDistance > distance_threshold ) =>
        /\ ReportsDistinct
        /\ ~Called(ddRes, "full")
        /\ ~Called(ddRes, "judge")

\* C5: in the ambiguous band, if the judgment provider returns an error or a
\* null result, find_duplicate reports (false, null): the insert is allowed.
C5_FailOpen ==
    ( /\ InBand
      /\ Called(ddRes, "judge")
      /\ (ddEnv.judge.error \/ ddEnv.judge.decision = None) ) =>
        ReportsDistinct

\* the judgment call was made in the band, failed, and the call reported distinct
C5_Witness ==
    /\ InBand
    /\ Called(ddRes, "judge")
    /\ ddEnv.judge.error
    /\ ReportsDistinct

\* C6: in the ambiguous band with a successful judgment, find_duplicate reports
\* (true, nearest id) if and only if the decision is "duplicate"; a "distinct"
\* decision yields (false, null).
C6_Adjudication ==
    ( /\ InBand
      /\ Called(ddRes, "judge")
      /\ ~ddEnv.judge.error
      /\ ddEnv.judge.decision # None ) =>
        /\ ReportsDuplicateOf(NearestId) <=> ddEnv.judge.decision = "duplicate"
        /\ ddEnv.judge.decision = "distinct" => ReportsDistinct

\* the judgment said "duplicate" in the band and the nearest id was reported
C6_Witness ==
    /\ InBand
    /\ Called(ddRes, "judge")
    /\ ~ddEnv.judge.error
    /\ ddEnv.judge.decision = "duplicate"
    /\ ReportsDuplicateOf(NearestId)

\* C7 (as claimed): for every outcome of the embedding call and of the judgment
\* call, find_duplicate returns a value and raises no exception to its caller.
C7_NeverRaises == ~ddRes.raised

\* ------------------------------------------------------------------ claims: process_raw_recipe
\* C8 (as claimed): when process_raw_recipe runs with enforce_deduplication =
\* true and the dedupe service reports a duplicate of existing recipe R, the
\* pipeline returns (R, no error, created = false).
C8_DuplicateReturnsExisting ==
    ( /\ pipeIn.called
      /\ pipeIn.enforce
      /\ pipeDup.called
      /\ ~pipeDup.raised
      /\ pipeDup.ret[1] = TRUE
      /\ pipeDup.ret[2] # None ) =>
        pipeRes = Existing(pipeDup.ret[2])

\* ------------------------------------------------------------------ claims: apply_rerank
\* the first n rows of a list, at most
Shorter(n, m) == IF n < m THEN n ELSE m
\* rows is the head of hits, at most limit long, no row carrying a score
IsBaseline(rows, hits, limit) ==
    /\ Len(rows) = Shorter(limit, Len(hits))
    /\ \A i \in 1..Len(rows) :
        /\ rows[i] = hits[i]
        /\ rows[i].rerank_score = <<>>
        /\ rows[i].embedding_score = <<>>
        /\ rows[i].combined_score = <<>>
\* the ranking is not empty and none of its ids is the id of a candidate
UnusableRanking(ranked_items, hits) ==
    /\ ranked_items # <<>>
    /\ \A i \in 1..Len(ranked_items) :
        \A j \in 1..Len(hits) : ranked_items[i].id # hits[j].id

\* C9: when the ranking handed to apply_rerank is not empty and none of its ids
\* is the id of an input candidate, apply_rerank returns the input candidates in
\* their original order truncated to limit, none of them carrying a
\* rerank_score, embedding_score or combined_score.
C9_UnusableRankingGivesBaseline ==
    (rrOut.done /\ UnusableRanking(rrIn.ranked_items, rrIn.matches))
        => IsBaseline(rrOut.rows, rrIn.matches, rrIn.limit)
\* an unknown id with a score that would pass the cut, more candidates than limit
C9_Witness ==
    /\ rrOut.done
    /\ UnusableRanking(rrIn.ranked_items, rrIn.matches)
    /\ rrIn.ranked_items[1].score = <<90>>
    /\ Len(rrIn.matches) > rrIn.limit
    /\ Len(rrOut.rows) = rrIn.limit
    /\ rrOut.rows[1] = rrIn.matches[1]

\* ------------------------------------------------------------------ claims: semantic search
\* the request reaches the rerank step and the rerank call fails: the judgment
\* provider answers an error or null, or the reranker service raises
RerankFails ==
    /\ epOut.done
    /\ Len(normalize_search_query(epIn.query)) >= 2
    /\ epIn.embed = "ok"
    /\ epIn.search = "ok"
    /\ epIn.rerank_enabled
    /\ epIn.reranker \in {"raise", "error", "null"}

\* C10: when the rerank call of a search fails (the judgment provider answers an
\* error or null, or the reranker service raises), the search answers 200 with
\* the candidates of the vector store in distance order truncated to limit,
\* unscored.
C10_RerankFailureGivesBaseline ==
    RerankFails =>
        /\ epOut.response.status = 200
        /\ epOut.response.success
        /\ IsBaseline(epOut.response.results, epIn.rows, epIn.limit)

\* ------------------------------------------------------------------ claims: unusable items
\* a ranked item is unusable: its id is not the id of a candidate, or its score
\* is missing
UnusableItem(item, hits) ==
    \/ \A j \in 1..Len(hits) : item.id # hits[j].id
    \/ item.score = <<>>

\* C11: when the ranking handed to apply_rerank is not empty and every item of
\* it is unusable (its id is not a candidate's id, or its score is missing),
\* apply_rerank returns the baseline: the candidates in their original order
\* truncated to limit, unscored, and not an empty list.
C11_AllUnusableGivesBaseline ==
    (/\ rrOut.done
     /\ rrIn.ranked_items # <<>>
     /\ \A i \in 1..Len(rrIn.ranked_items) :
            UnusableItem(rrIn.ranked_items[i], rrIn.matches))
        => IsBaseline(rrOut.rows, rrIn.matches, rrIn.limit)

\* ------------------------------------------------------------------ claims: malformed items
\* the request is valid, embedding and vector search succeed, more than one
\* candidate is found and the judgment provider answers the reranker with JSON
RerankAnswered ==
    /\ epOut.done
    /\ Len(normalize_search_query(epIn.query)) >= 2
    /\ epIn.embed = "ok"
    /\ epIn.search = "ok"
    /\ epIn.rerank_enabled
    /\ Len(epIn.rows) > 1
    /\ epIn.reranker = "response"
\* a ranked item of the provider is malformed: it has a score, and the score is
\* outside 0..1 or the id is not the id of a candidate; it is well formed with
\* a known id and a score within 0..1
MalformedItem(item, hits) ==
    /\ item.score # <<>>
    /\ \/ \A j \in 1..Len(hits) : item.id # hits[j].id
       \/ item.score[1] < 0
       \/ item.score[1] > 100
WellFormedItem(item, hits) ==
    /\ \E j \in 1..Len(hits) : item.id = hits[j].id
    /\ item.score # <<>>
    /\ item.score[1] >= 0
    /\ item.score[1] <= 100
\* the items of a list that are well formed, in their order
RECURSIVE WellFormedOnly(_, _)
WellFormedOnly(ranked, hits) ==
    IF ranked = <<>> THEN <<>>
    ELSE IF WellFormedItem(Head(ranked), hits)
         THEN <<Head(ranked)>> \o WellFormedOnly(Tail(ranked), hits)
         ELSE WellFormedOnly(Tail(ranked), hits)
\* exactly one item of the ranking is malformed, the others are well formed and
\* there is at least one of them
OneMalformedAmongWellFormed(ranked, hits) ==
    /\ Len(ranked) >= 2
    /\ \E i \in 1..Len(ranked) :
        /\ MalformedItem(ranked[i], hits)
        /\ \A k \in (1..Len(ranked)) \ {i} : WellFormedItem(ranked[k], hits)

\* C12: when the provider's ranking holds one malformed item (a score outside
\* 0..1, or an id that is no candidate's) next to well-formed items, the search
\* answers what it would answer to the ranking without that item: the
\* well-formed items are scored, filtered and returned.
C12_MalformedItemExcludedAlone ==
    (RerankAnswered /\ OneMalformedAmongWellFormed(epIn.ranked, epIn.rows))
        => /\ epOut.response.status = 200
           /\ epOut.response.results =
                ApplyRerank(
                  [matches |-> epIn.rows,
                   ranked_items |-> WellFormedOnly(epIn.ranked, epIn.rows),
                   limit |-> epIn.limit,
                   min_rerank_score |-> DefaultMinRerankScore,
                   fallback_min_rerank_score |-> <<DefaultFallbackMinRerankScore>>,
                   rerank_weight |-> DefaultRerankWeight,
                   query |-> normalize_search_query(epIn.query),
                   cuisine_boost |-> CuisineBoost,
                   family_boost |-> FamilyBoost])

\* ------------------------------------------------------------------ claims: strict pass
\* the candidate with an id, where there is one
HitWithId(hits, id) == hits[CHOOSE j \in 1..Len(hits) : hits[j].id = id]
\* the ranked items that name a candidate and carry a score of at least cut
\* once clamped to 0..1, boosted by what boost gives for the candidate
PassingItems(a, cut, boost(_)) ==
    {i \in 1..Len(a.ranked_items) :
        /\ \E j \in 1..Len(a.matches) : a.matches[j].id = a.ranked_items[i].id
        /\ a.ranked_items[i].score # <<>>
        /\ Clamp01(a.ranked_items[i].score[1]
                   + boost(HitWithId(a.matches, a.ranked_items[i].id))) >= cut}
\* the first of them for an id
FirstPassing(a, cut, boost(_), id) ==
    CHOOSE i \in PassingItems(a, cut, boost) :
        /\ a.ranked_items[i].id = id
        /\ \A k \in PassingItems(a, cut, boost) :
                a.ranked_items[k].id = id => i <= k
NoBoost(hit) == 0
\* the candidates that survive the strict pass
StrictSurvivors(a) ==
    {a.ranked_items[i].id : i \in PassingItems(a, a.min_rerank_score, NoBoost)}
\* 1 - clamp(distance, 0, 1), and 0 without a distance
ExpectedEmbeddingScore(hit) ==
    IF hit.distance = <<>> THEN 0
    ELSE IF hit.distance[1] > 100 THEN 0
    ELSE IF hit.distance[1] < 0 THEN 100
    ELSE 100 - hit.distance[1]
\* the ids of a list of rows, and whether no id occurs twice in it
IdsOf(rows) == {rows[i].id : i \in 1..Len(rows)}
DistinctIds(rows) == \A i, j \in 1..Len(rows) : rows[i].id = rows[j].id => i = j

\* C13: when some ranked candidate has a rerank_score (the provider's score, no
\* boost) of at least min_score, apply_rerank returns candidates of exactly
\* that kind, all of them when they are at most limit, each once and each
\* carrying its rerank_score, embedding_score = 1 - clamp(distance, 0, 1) (0
\* without a distance) and combined_score = weight * rerank_score +
\* (1 - weight) * embedding_score, and no boost or fallback field.
C13_StrictPass ==
    (rrOut.done /\ StrictSurvivors(rrIn) # {})
        => /\ IdsOf(rrOut.rows) \subseteq StrictSurvivors(rrIn)
           /\ DistinctIds(rrOut.rows)
           /\ Len(rrOut.rows) = Shorter(rrIn.limit, Cardinality(StrictSurvivors(rrIn)))
           /\ \A i \in 1..Len(rrOut.rows) :
                LET row == rrOut.rows[i]
                    hit == HitWithId(rrIn.matches, row.id)
                    item == rrIn.ranked_items[
                                FirstPassing(rrIn, rrIn.min_rerank_score, NoBoost, row.id)]
                IN  /\ row.name = hit.name
                    /\ row.distance = hit.distance
                    /\ row.rerank_score = item.score
                    /\ row.embedding_score = <<ExpectedEmbeddingScore(hit)>>
                    /\ row.combined_score =
                        <<rrIn.rerank_weight * item.score[1]
                          + (100 - rrIn.rerank_weight) * ExpectedEmbeddingScore(hit)>>
                    /\ row.raw_rerank_score = <<>>
                    /\ row.cuisine_boost = <<>>
                    /\ row.family_boost = <<>>
                    /\ row.rerank_mode = <<>>
\* the example: distances 0.09 and 0.11, scores 0.9 and 0.3, min_score 0.4 and
\* weight 0.7 leave the first alone, with combined_score 0.903
C13_Witness ==
    /\ rrOut.done
    /\ Len(rrIn.matches) = 2
    /\ rrIn.matches[1].distance = <<9>>
    /\ rrIn.matches[2].distance = <<11>>
    /\ rrIn.ranked_items = <<[id |-> rrIn.matches[1].id, score |-> <<90>>],
                             [id |-> rrIn.matches[2].id, score |-> <<30>>]>>
    /\ rrIn.min_rerank_score = 40
    /\ rrIn.rerank_weight = 70
    /\ rrIn.limit = 2
    /\ Len(rrOut.rows) = 1
    /\ rrOut.rows[1].id = rrIn.matches[1].id
    /\ rrOut.rows[1].combined_score = <<9030>>

\* ------------------------------------------------------------------ claims: fallback pass
\* some ranked id is the id of a candidate, and no candidate survives the
\* strict pass
StrictPassEmpty ==
    /\ rrOut.done
    /\ \E i \in 1..Len(rrIn.ranked_items) :
        \E j \in 1..Len(rrIn.matches) : rrIn.ranked_items[i].id = rrIn.matches[j].id
    /\ StrictSurvivors(rrIn) = {}
\* a fallback threshold is configured and, both clamped to 0..1, it is strictly
\* below the strict one
FallbackConfigured ==
    /\ rrIn.fallback_min_rerank_score # <<>>
    /\ Clamp01(rrIn.fallback_min_rerank_score[1]) < Clamp01(rrIn.min_rerank_score)
\* the lexical boosts of a candidate for the query of the call
LexicalBoosts(hit) ==
    ComputeBoosts(rrIn.query, hit.name, rrIn.cuisine_boost, rrIn.family_boost)
LexicalBoost(hit) == LexicalBoosts(hit).total
\* the candidates that survive the fallback pass
FallbackSurvivors ==
    {rrIn.ranked_items[i].id :
        i \in PassingItems(rrIn, Clamp01(rrIn.fallback_min_rerank_score[1]),
                           LexicalBoost)}

\* C14: when some ranked id matched a candidate, the strict pass left no
\* survivor and a fallback threshold strictly below the strict one is
\* configured, apply_rerank returns the survivors of a second pass with the
\* fallback threshold and the lexical boosts added to the scores: every
\* returned result has rerank_mode = "fallback", and every boosted one keeps the
\* provider's score in raw_rerank_score, different from its rerank_score.
C14_FallbackEscalation ==
    (StrictPassEmpty /\ FallbackConfigured)
        => /\ IdsOf(rrOut.rows) \subseteq FallbackSurvivors
           /\ DistinctIds(rrOut.rows)
           /\ Len(rrOut.rows) = Shorter(rrIn.limit, Cardinality(FallbackSurvivors))
           /\ \A i \in 1..Len(rrOut.rows) :
                LET row == rrOut.rows[i]
                    hit == HitWithId(rrIn.matches, row.id)
                    item == rrIn.ranked_items[
                                FirstPassing(rrIn,
                                    Clamp01(rrIn.fallback_min_rerank_score[1]),
                                    LexicalBoost, row.id)]
                IN  /\ row.rerank_mode = <<"fallback">>
                    /\ row.rerank_score = <<Clamp01(item.score[1] + LexicalBoost(hit))>>
                    /\ row.combined_score =
                        <<rrIn.rerank_weight * row.rerank_score[1]
                          + (100 - rrIn.rerank_weight) * ExpectedEmbeddingScore(hit)>>
                    /\ LexicalBoost(hit) > 0 =>
                        /\ row.raw_rerank_score = item.score
                        /\ row.raw_rerank_score # row.rerank_score
                    /\ LexicalBoost(hit) = 0 => row.raw_rerank_score = <<>>
\* a candidate below the fallback threshold passes it by its cuisine boost, next
\* to one that passes by its family boost
C14_Witness ==
    /\ StrictPassEmpty
    /\ FallbackConfigured
    /\ Len(rrOut.rows) = 2
    /\ \E i \in 1..2 :
        /\ rrOut.rows[i].raw_rerank_score = <<15>>
        /\ rrOut.rows[i].rerank_score = <<30>>
        /\ rrOut.rows[i].cuisine_boost = <<15>>
        /\ rrOut.rows[i].rerank_mode = <<"fallback">>
    /\ \E i \in 1..2 :
        /\ rrOut.rows[i].family_boost = <<10>>
        /\ rrOut.rows[i].raw_rerank_score # <<>>
        /\ rrOut.rows[i].rerank_mode = <<"fallback">>

\* ------------------------------------------------------------------ claims: empty result
\* C15: when some ranked id matched a candidate, the strict pass left no
\* survivor and the fallback threshold is not configured or, both clamped to
\* 0..1, is not strictly below the strict one, apply_rerank returns an empty
\* list and makes no fallback pass.
C15_EmptyResult ==
    (StrictPassEmpty /\ ~FallbackConfigured)
        => /\ rrOut.rows = <<>>
           /\ rrOut.passes = <<"strict">>
\* a candidate that would pass a lower cut (0.3, boosted) is not returned when
\* the fallback threshold equals the strict one
C15_Witness ==
    /\ StrictPassEmpty
    /\ rrIn.fallback_min_rerank_score = <<rrIn.min_rerank_score>>
    /\ rrIn.query # <<>>
    /\ \E i \in 1..Len(rrIn.ranked_items) :
        /\ rrIn.ranked_items[i].score = <<30>>
        /\ \E j \in 1..Len(rrIn.matches) : rrIn.matches[j].id = rrIn.ranked_items[i].id
    /\ rrOut.rows = <<>>
    /\ rrOut.passes = <<"strict">>

\* ------------------------------------------------------------------ claims: result count
\* the path apply_rerank took for the call drawn
RerankPath ==
    IF rrIn.ranked_items = <<>> \/ ~RankedIdsFound(rrIn.matches, rrIn.ranked_items)
    THEN "baseline"
    ELSE IF StrictSurvivors(rrIn) # {} THEN "strict"
    ELSE IF rrOut.passes = <<"strict", "fallback">> THEN "fallback"
    ELSE "empty"
\* C16: the list apply_rerank returns, on its baseline, strict, fallback and
\* empty paths, and the list the semantic search endpoint returns, have at most
\* limit entries.
C16_ResultCountBound ==
    /\ (rrOut.done /\ RerankPath \in {"baseline", "strict", "fallback", "empty"})
            => Len(rrOut.rows) <= rrIn.limit
    /\ (epOut.done /\ epOut.response.status = 200)
            => /\ Len(epOut.response.results) <= epIn.limit
               /\ epOut.response.count <= epIn.limit
\* two candidates survive the strict pass and one is asked for
C16_Witness ==
    /\ rrOut.done
    /\ RerankPath = "strict"
    /\ Cardinality(StrictSurvivors(rrIn)) > rrIn.limit
    /\ Len(rrOut.rows) = rrIn.limit

\* ------------------------------------------------------------------ claims: normalization
\* a string of at least two characters that starts and ends with the same
\* wrapping quote
QuoteWrapped(s) ==
    /\ Len(s) >= 2
    /\ s[1] = s[Len(s)]
    /\ s[1] \in {"\"", "'"}
\* a string without whitespace at its ends or other than single blanks inside
Collapsed(s) ==
    /\ \A i \in 1..Len(s) : s[i] # "\t"
    /\ s # <<>> => s[1] # " " /\ s[Len(s)] # " "
    /\ \A i \in 1..(Len(s) - 1) : ~(s[i] = " " /\ s[i + 1] = " ")
\* C17 as stated: for every raw query q,
\* normalize_search_query(normalize_search_query(q)) = normalize_search_query(q).
C17_Idempotent ==
    nqOut.done => normalize_search_query(nqOut.normalized) = nqOut.normalized
\* C17 amended: normalize_search_query strips one layer of quotes, so a second
\* normalization returns the first result unchanged unless that result is
\* itself wrapped in a matching pair of quotes; the first result is always
\* collapsed, and a wrapped one loses another layer.
C17_IdempotentUnlessStillWrapped ==
    nqOut.done =>
        /\ Collapsed(nqOut.normalized)
        /\ ~QuoteWrapped(nqOut.normalized)
                => normalize_search_query(nqOut.normalized) = nqOut.normalized
        /\ QuoteWrapped(nqOut.normalized)
                => Len(normalize_search_query(nqOut.normalized))
                        <= Len(nqOut.normalized) - 2
\* a quoted raw query with whitespace inside the quotes, normalized to the
\* bare word, which a second normalization returns unchanged
C17_Witness ==
    /\ nqOut.done
    /\ nqIn = <<"\"", " ", "a", "\t", "\"">>
    /\ nqOut.normalized = <<"a">>
    /\ normalize_search_query(nqOut.normalized) = nqOut.normalized

\* C18: for every normalized query n and each quote character c,
\* normalize_search_query(c + n + c) = n.
C18_QuoteWrapRoundTrip ==
    nqOut.done =>
        \A c \in {"\"", "'"} :
            normalize_search_query(<<c>> \o nqOut.normalized \o <<c>>) = nqOut.normalized
\* a normalized query with a blank inside and a quote of its own at one end
C18_Witness ==
    /\ nqOut.done
    /\ nqOut.normalized = <<"'", "a", " ", "a">>
    /\ nqIn # nqOut.normalized
    /\ normalize_search_query(<<"\"">> \o nqOut.normalized \o <<"\"">>) = nqOut.normalized
    /\ normalize_search_query(<<"'">> \o nqOut.normalized \o <<"'">>) = nqOut.normalized

\* ------------------------------------------------------------------ claims: cached payloads
\* the structured call of the last step found, under its key and unexpired, a
\* payload that fails validation
FoundInvalidCached ==
    /\ structOp.key # <<>>
    /\ structOp.cached # Absent
    /\ structOp.cached \notin ValidPayloads
\* what the provider step returns for a call whose lookup missed, the provider's
\* answer being the same
AsOnMiss ==
    StructuredProvider(structured_cache,
                       StructCall(structOp.user_prompt, Absent, FALSE, structOp.at),
                       structOp.rate_limited, structOp.final,
                       structOp.stamp, structOp.at).op
\* C19: when a structured call finds under its key a cached payload that fails
\* validation, it does not return at the lookup, it deletes the entry, and it
\* calls the provider and ends exactly as a call that missed (same result, same
\* error, a valid answer cached), its error being the provider path's or none.
C19_CachedValidationFailure ==
    FoundInvalidCached =>
        /\ structOp.step \in {"get", "delete", "set"}
        /\ structOp.step = "get"
                => /\ ~structOp.done
                   /\ structOp.ret = <<>> /\ structOp.err = <<>>
                   /\ BagIn(StructCall(structOp.user_prompt, structOp.cached, FALSE,
                                       structOp.at), structCalls)
        /\ structOp.step = "delete"
                => /\ ~structOp.done
                   /\ ~HasKey(structured_cache, structOp.key)
                   /\ BagIn(StructCall(structOp.user_prompt, structOp.cached, TRUE,
                                       structOp.at), structCalls)
        /\ structOp.step = "set"
                => /\ structOp.done
                   /\ structOp.deleted
                   /\ structOp.provider_calls = structOp.rate_limited + 1
                   /\ structOp.ret = AsOnMiss.ret
                   /\ structOp.err = AsOnMiss.err
                   /\ structOp.provider_calls = AsOnMiss.provider_calls
                   /\ structOp.final.kind = "raise"
                        => structOp.ret = <<>> /\ structOp.err = <<"LLM API call failed">>
                   /\ structOp.final.kind = "text"
                        => /\ structOp.ret = <<>>
                           /\ structOp.err = <<"Failed to parse JSON response">>
                   /\ (structOp.final.kind = "json"
                        /\ structOp.final.content[1] \notin ValidPayloads)
                        => /\ structOp.ret = <<>>
                           /\ structOp.err = <<"Failed to validate response data">>
                   /\ (structOp.final.kind = "json"
                        /\ structOp.final.content[1] \in ValidPayloads)
                        => /\ structOp.ret = structOp.final.content
                           /\ structOp.err = <<>>
                           /\ Enabled
                                => /\ HasKey(structured_cache, structOp.key)
                                   /\ EntryOf(structured_cache, structOp.key)
                                        = [key |-> structOp.key,
                                           expires_at |-> structOp.stamp + ttl_seconds,
                                           value |-> structOp.final.content[1]]
\* a call that found a malformed payload and deleted it gets a valid judgment
\* from the provider, returns it and caches it next to the entry of another
\* prompt, with the expiry of a clock reading taken before it got the lock
C19_Witness ==
    /\ FoundInvalidCached
    /\ structOp.step = "set"
    /\ structOp.stamp < structOp.at
    /\ Len(structured_cache) = 2
    /\ structOp.final = [kind |-> "json", content |-> <<"duplicate">>]
    /\ structOp.ret = <<"duplicate">>
    /\ structOp.err = <<>>
    /\ structOp.deleted
    /\ \E i \in 1..Len(structured_cache) :
        structured_cache[i].key = structOp.key /\ structured_cache[i].value = "duplicate"

\* ------------------------------------------------------------------ claims: text memoization
\* the last step was the lookup of a text-generation call under whose key
\* content written by an earlier call is neither expired nor evicted
LooksUpStored ==
    /\ textOp.step = "get"
    /\ textOp.known # {}
\* the content written last under the key of the lookup, where its entry is
\* neither expired nor evicted
CurrentContent == {e.value : e \in {e \in textOp.known : e.current}}
\* C20 as amended: a text-generation call that looks its key up while the
\* entry written last under the key (the empty string included) is neither
\* expired nor evicted returns the content of that entry and does not call the
\* provider; the entry expires ttl after the clock reading its writer took
\* before it got the cache lock.
C20_TextMemoized ==
    (textOp.step = "get" /\ CurrentContent # {}) =>
        /\ textOp.done
        /\ ~textOp.raised
        /\ \A content \in CurrentContent : textOp.ret = <<content>>
        /\ textOp.provider_calls = 0
\* C20 as stated: after a text-generation call returned a content that is not
\* None, a later call with the same model and prompts, made before that entry
\* expired or was evicted, returns the same content and does not call the
\* provider.
C20_SameContentAsEveryEarlierCall ==
    LooksUpStored =>
        /\ textOp.done
        /\ textOp.provider_calls = 0
        /\ \A e \in textOp.known : textOp.ret = <<e.value>>
\* the empty string, stored by an earlier call, is returned one tick later
C20_Witness ==
    /\ LooksUpStored
    /\ textOp.known = {Written("", 2, TRUE)}
    /\ textOp.at = 1
    /\ textOp.ret = <<"">>
    /\ textOp.provider_calls = 0

\* ------------------------------------------------------------------ make_embedding
\* the recipes find_duplicate is called for: a title and an ingredient list
Recipes ==
    {[title |-> "Dal", ingredients |-> <<"lentils", "cumin">>],
     [title |-> "Pesto", ingredients |-> <<"basil">>]}
\* ", ".join(ingredients)
RECURSIVE JoinIngredients(_)
JoinIngredients(ingredients) ==
    IF ingredients = <<>> THEN <<>>
    ELSE IF Len(ingredients) = 1 THEN <<ingredients[1]>>
    ELSE <<ingredients[1], ", ">> \o JoinIngredients(Tail(ingredients))
\* _build_title_ingredients_text: f"Title: {title}\nIngredients: {', '.join(...)}"
BuildTitleIngredientsText(title, ingredients) ==
    <<"Title: ", title, "\nIngredients: ">> \o JoinIngredients(ingredients)
\* the embedding calls a run follows
MaxEmbedCalls == 2
\* make_embedding(text): the model name, the client, and the provider's
\* embeddings.create under _with_retries; no cache is read or written, so every
\* call sends the text to the provider
MakeEmbedding(log, text, t) ==
    Append(log, [text |-> text, at |-> t])

\* find_duplicate(recipe) at time t: the embedding text is
\* built and embedded first, whatever the rest of the call does
FindDuplicateFor(recipe, env, t) ==
    /\ Len(embedLog) < MaxEmbedCalls
    /\ FindDuplicateCall(env)
    /\ embedLog' = MakeEmbedding(embedLog,
                       BuildTitleIngredientsText(recipe.title, recipe.ingredients), t)
    /\ now' = t
    /\ UNCHANGED <<ttl_seconds, max_items, data, cacheOp, stored, touch>>

\* find_duplicate calls for recipes over time, next to the cache configuration
InitEmbed ==
    /\ InitCacheVars /\ InitDedupeVars /\ IdlePipe /\ IdleRerank /\ IdleSearch
    /\ IdleNormalize /\ IdleStructured /\ IdleText /\ IdleEmbed /\ IdleLimit /\ IdleThreads /\ IdleRace
NextEmbed ==
    /\ \E recipe \in Recipes, env \in DedupeEnvs({<<>>}), t \in Clock :
            FindDuplicateFor(recipe, env, t)
    /\ UNCHANGED <<pipeVars, rerankVars, searchVars, normVars, structVars, textVars, limitVars, threadVars, raceVars>>
SpecEmbed == InitEmbed /\ [][NextEmbed]_vars

\* ------------------------------------------------------------------ C21
\* C21: two find_duplicate calls for recipes with the same title and ingredient
\* list, the second made within the cache TTL of the first and with no other
\* text embedded in between, send that text to the embedding provider at most
\* once
C21_EmbeddingMemoized ==
    Enabled =>
        \A i \in 1..Len(embedLog), j \in 1..Len(embedLog) :
            (i < j /\ embedLog[i].text = embedLog[j].text
                   /\ \A m \in i..j : embedLog[m].text = embedLog[i].text)
                => embedLog[j].at >= embedLog[i].at + ttl_seconds

\* ------------------------------------------------------------------ C22
\* C22: a configuration with strict_duplicate_threshold above distance_threshold
\* is rejected when the dedupe service is constructed, so every find_duplicate
\* call runs with strict_duplicate_threshold <= distance_threshold
C22_NoInvertedThresholds ==
    ddRes.calls # <<>> => strict_duplicate_threshold <= distance_threshold

\* ------------------------------------------------------------------ C23
\* C23: on a cache constructed with ttl_seconds <= 0 or max_items <= 0, after any
\* sequence of set, get and delete calls the map is empty and a get has returned
\* None
C23_DisabledMode ==
    (ttl_seconds <= 0 \/ max_items <= 0) =>
        /\ data = <<>>
        /\ cacheOp.op = "get" => cacheOp.ret = Absent

\* a get on a disabled cache, after the clock has moved
C23_Witness ==
    /\ ttl_seconds <= 0 \/ max_items <= 0
    /\ cacheOp.op = "get"
    /\ now > 0

\* ------------------------------------------------------------------ requests over time
InitLimit ==
    /\ IdleCache /\ IdleDedupe /\ IdlePipe /\ IdleRerank /\ IdleSearch
    /\ IdleNormalize /\ IdleStructured /\ IdleText /\ IdleEmbed /\ InitLimitVars
    /\ IdleThreads /\ IdleRace
NextLimit ==
    /\ \/ \E request \in Requests, t \in Clock : Dispatch(request, t)
       \/ \E request \in BagToSet(rlPending) : CallNext(request)
    /\ UNCHANGED <<dedupeVars, pipeVars, rerankVars, searchVars, normVars, structVars,
                   textVars, embedVars, threadVars, raceVars>>
SpecLimit == InitLimit /\ [][NextLimit]_vars

\* ------------------------------------------------------------------ C24
\* the admissions of the request's client IP that were within the window when
\* the request arrived
InWindow(ip) ==
    SelectSeq(rlOp.pre[ip], LAMBDA ts : rlOp.at - ts <= WindowSeconds)
\* the last step was a request arriving at the application
Arrived == rlOp.done /\ rlOp.step = "dispatch"
\* the last step was the answer of the token check or the route
Answered == rlOp.done /\ rlOp.step = "call_next"
\* the request was answered 429 and its time was not added to the bucket
Rejected(ip) ==
    /\ rlOp.status = 429
    /\ rlBuckets[ip] = InWindow(ip)
\* the request passed the limiter: its time was added to the bucket and it
\* went on to the token check
Counted(ip) ==
    /\ rlOp.status = 0
    /\ rlBuckets[ip] = Append(InWindow(ip), rlOp.at)
    /\ BagIn(rlOp.request, rlPending)

\* C24: the limiter runs before the token check and counts every request it
\* lets through. With requests_per_minute = L, a request that finds L
\* admissions of its client IP within the 60-second window is answered 429 and
\* is not added to the bucket; every other request is added to the bucket of
\* its client IP alone, whatever its credentials and its X-Forwarded-For
\* header, and only then goes on to the token check, whose answer (401 or 200)
\* changes no bucket
C24_LimitBeforeAuth ==
    /\ Arrived =>
        LET ip == IF rlOp.request.client # <<>> THEN rlOp.request.client[1] ELSE "unknown"
            L == rlCfg.requests_per_minute
        IN /\ Len(InWindow(ip)) >= L => Rejected(ip)
           /\ Len(InWindow(ip)) < L => Counted(ip)
           /\ \A other \in ClientIps \ {ip} : rlBuckets[other] = rlOp.pre[other]
    /\ Answered => rlOp.status \in {200, 401} /\ rlBuckets = rlOp.pre

\* ------------------------------------------------------------------ C25
\* C25: a request to a path given to the rate limiter as exempt is admitted and
\* leaves every bucket as it was
C25_ExemptPathsFree ==
    ( /\ rlOp.done
      /\ rlCfg.exempt_paths_given
      /\ NormalizePath(rlOp.request.path) \in PublicPaths ) =>
        /\ rlOp.status \in {200, 401}
        /\ rlBuckets = rlOp.pre

\* ------------------------------------------------------------------ threads on one cache
InitThreads ==
    /\ InitCacheVars /\ IdleDedupe /\ IdlePipe /\ IdleRerank /\ IdleSearch
    /\ IdleNormalize /\ IdleStructured /\ IdleText /\ IdleEmbed /\ IdleLimit
    /\ IdleThreads /\ IdleRace
NextThreads ==
    /\ \/ \E th \in Threads, k \in ThreadKeys : CallGet(th, k)
       \/ \E th \in Threads, k \in ThreadKeys, ttlArg \in {<<>>, <<1>>} :
            CallSet(th, k, "a", ttlArg)
       \/ \E th \in Threads, k \in ThreadKeys : CallDelete(th, k)
       \/ \E th \in Threads : Locked(th)
       \/ Tick
    /\ UNCHANGED <<dedupeVars, pipeVars, rerankVars, searchVars, normVars, structVars,
                   textVars, embedVars, limitVars, raceVars>>
SpecThreads == InitThreads /\ [][NextThreads]_vars

\* ------------------------------------------------------------------ C26
\* the map holds at most one entry per key
OneEntryPerKey ==
    \A i \in 1..Len(data), j \in 1..Len(data) : data[i].key = data[j].key => i = j
\* C26: under any interleaving of get, set and delete by several threads the
\* map holds at most one entry per key, and a get that returned a value read
\* the map, under the lock, before that entry's expires_at
C26_ConcurrentCache ==
    /\ OneEntryPerKey
    /\ \A th \in Threads :
         (threads[th].pc = "done" /\ threads[th].op = "get" /\ threads[th].hit # <<>>)
            => threads[th].hit[1].expires_at > threads[th].read_at

\* ------------------------------------------------------------------ two submissions at once
InitRace ==
    /\ IdleCache /\ InitDedupeVars /\ InitPipeVars /\ IdleRerank /\ IdleSearch
    /\ IdleNormalize /\ IdleStructured /\ IdleText /\ IdleEmbed /\ IdleLimit
    /\ IdleThreads /\ IdleRace
NextRace ==
    /\ \/ \E s \in Submissions, c \in {"c1", "c2"}, enforce \in BOOLEAN :
            StartSubmission(s, c, enforce)
       \/ \E s \in Submissions : DedupeCheck(s)
       \/ \E s \in Submissions : EmbedAndInsert(s)
       \/ /\ \E id \in PresentIds(store) : DeleteRecipe(id)
          /\ UNCHANGED subs
    /\ UNCHANGED <<on_delete, pipeIn, pipeDup, pipeRes>>
    /\ UNCHANGED <<cacheVars, dedupeVars, rerankVars, searchVars, normVars, structVars,
                   textVars, embedVars, limitVars, threadVars>>
SpecRace == InitRace /\ [][NextRace]_vars

\* ------------------------------------------------------------------ C27
\* the stored records that hold recipe c
RecordsOf(c) == SelectSeq(store, LAMBDA r : r.present /\ r.content = c)
\* both calls have ended, were made for the same recipe with deduplication
\* enforced, and the dedupe check of each reported no duplicate
BothReportedNoDuplicate ==
    /\ subs["s1"].content = subs["s2"].content
    /\ \A s \in Submissions :
         /\ subs[s].pc = "done"
         /\ subs[s].enforce
         /\ subs[s].dup.called /\ ~subs[s].dup.raised
         /\ subs[s].dup.ret[1] = FALSE
         /\ subs[s].emb = "ok" /\ subs[s].ins = "ok"
\* C27: when two concurrent submissions of the same recipe, deduplication
\* enforced, both run their dedupe check before either inserts, both checks
\* report no duplicate and (the embedding and the insert succeeding) both
\* submissions insert: two stored records hold the one recipe
C27_BothInsert ==
    BothReportedNoDuplicate =>
        /\ \A s \in Submissions : subs[s].res.created
        /\ Len(RecordsOf(subs["s1"].content)) = 2

\* ------------------------------------------------------------------ apply_rerank called directly
InitRerankWide ==
    /\ IdleCache /\ IdleDedupe /\ IdlePipe /\ InitRerankWideVars /\ IdleSearch
    /\ IdleNormalize /\ IdleStructured /\ IdleText /\ IdleEmbed /\ IdleLimit
    /\ IdleThreads /\ IdleRace
SpecRerankWide == InitRerankWide /\ [][NextRerank]_vars

\* ------------------------------------------------------------------ C28
\* normalized_min_score of the strict pass: _rank_matches compares with
\* min(max(min_rerank_score, 0.0), 1.0), not with the min_rerank_score it is given
NormalizedMinScore == Clamp01(rrIn.min_rerank_score)
\* the ranked items that survive the strict pass
StrictItems == PassingItems(rrIn, NormalizedMinScore, NoBoost)
\* the ranked item a returned row was built from
ItemOf(row) ==
    IF StrictItems # {} THEN FirstPassing(rrIn, NormalizedMinScore, NoBoost, row.id)
    ELSE FirstPassing(rrIn, Clamp01(rrIn.fallback_min_rerank_score[1]),
                      LexicalBoost, row.id)

\* C28: whenever the strict pass yields a survivor, apply_rerank returns
\* survivors of the strict pass only: at least one row, each the row of a
\* strict survivor, none carrying rerank_mode, cuisine_boost or family_boost,
\* and each with a rerank_score of at least the configured strict min_score,
\* the min_rerank_score apply_rerank was given
C28_BarNotLowered ==
    (rrOut.done /\ StrictItems # {}) =>
        /\ rrOut.rows # <<>>
        /\ \A i \in 1..Len(rrOut.rows) :
             LET row == rrOut.rows[i]
             IN /\ row.id \in {rrIn.ranked_items[k].id : k \in StrictItems}
                /\ row.rerank_mode = <<>>
                /\ row.cuisine_boost = <<>>
                /\ row.family_boost = <<>>
                /\ row.rerank_score # <<>>
                /\ row.rerank_score[1] >= rrIn.min_rerank_score

\* ------------------------------------------------------------------ C29
\* the row carries a lexical boost
Boosted(row) == row.cuisine_boost # <<>> \/ row.family_boost # <<>>
\* C29: a returned result carries raw_rerank_score if and only if a lexical
\* boost changed its score: a result built without a boost (every result of the
\* strict pass, whatever the provider's score) carries none, and a result whose
\* boost changed the score carries the provider's score in it
C29_RawScoreIffBoosted ==
    rrOut.done =>
        \A i \in 1..Len(rrOut.rows) :
            LET row == rrOut.rows[i]
            IN row.rerank_score # <<>> =>
                 /\ ~Boosted(row) => row.raw_rerank_score = <<>>
                 /\ (Boosted(row)
                       /\ row.rerank_score # rrIn.ranked_items[ItemOf(row)].score)
                      => row.raw_rerank_score = rrIn.ranked_items[ItemOf(row)].score

\* ------------------------------------------------------------------ C30
\* the rows carry scores: the list comes from a pass of _rank_matches
ScoredList == rrOut.done /\ rrOut.rows # <<>> /\ rrOut.rows[1].combined_score # <<>>
\* C30: a scored list returned by apply_rerank is in non-increasing
\* combined_score order, and two results of equal combined_score are in the
\* order in which the provider's ranking has the items they were built from
C30_OrderedByCombined ==
    ScoredList =>
        \A i \in 1..Len(rrOut.rows), j \in 1..Len(rrOut.rows) :
            i < j =>
                /\ rrOut.rows[i].combined_score[1] >= rrOut.rows[j].combined_score[1]
                /\ rrOut.rows[i].combined_score = rrOut.rows[j].combined_score
                     => ItemOf(rrOut.rows[i]) < ItemOf(rrOut.rows[j])

\* two results of equal combined_score, returned in the provider's order, which
\* is not the order of the candidate list
C30_Witness ==
    /\ ScoredList
    /\ Len(rrOut.rows) = 2
    /\ rrOut.rows[1].combined_score = rrOut.rows[2].combined_score
    /\ rrOut.rows[1].id = rrIn.ranked_items[1].id
    /\ rrOut.rows[1].id = rrIn.matches[2].id
====
